---- MODULE Spec2Model ----
(***************************************************************************)
(* PavedPath (src/src/paved_path/paved_path.py): a pathlib.Path subclass   *)
(* that keeps an in-memory copy of a file's text and bytes together with   *)
(* the modification time the copy was taken at.                            *)
(*                                                                         *)
(* The model holds one file d/f, a coarse filesystem clock, and two        *)
(* handles on the file: A (the tests' temp_file) and B, built from A.      *)
(* File content is a byte sequence; text is a sequence of characters;      *)
(* pathlib's text read and write go through UTF-8.  The data domain is     *)
(* newline-free ASCII (the empty string and "a"), on which the two codecs  *)
(* are inverse.                                                            *)
(*                                                                         *)
(* JSONFile (src/src/paved_path/json_file.py) is a PavedPath with one more *)
(* slot, cached_json, filled by read_json.  A handle carries the slot      *)
(* whatever its class: on a plain PavedPath nothing ever fills it.         *)
(* YAMLFile (src/src/paved_path/yaml_file.py) is the same with cached_yaml. *)
(***************************************************************************)
EXTENDS Integers, Sequences, FiniteSets, TLC

VARIABLES now, file, live, path, cache, last

vars == <<now, file, live, path, cache, last>>

(* ------------------------------ bounds -------------------------------- *)

\* Ticks of the filesystem clock.
MaxTime == 1

(* ---------------------------- data domain ----------------------------- *)

Handles == {"A", "B"}

RootDir == <<"d">>
FilePath == <<"d", "f">>

\* Path fragments a handle is joined with; pathlib drops "." segments.
Fragments == {"."}
JoinPath(p, frag) == IF frag = "." THEN p ELSE p \o <<frag>>

\* The texts written and read: the empty string and "a".
Chars == {"a"}
Texts == {<< >>} \cup {<<c>> : c \in Chars}

\* str.encode("utf-8") / bytes.decode("utf-8") on the ASCII range.
CharCode(c) ==
    CASE c = "a" -> 97 [] c = "[" -> 91 [] c = "]" -> 93 [] c = "{" -> 123 [] c = "}" -> 125
      [] c = "\"" -> 34 [] c = "\n" -> 10
CodeChar(n) ==
    CASE n = 97 -> "a" [] n = 91 -> "[" [] n = 93 -> "]" [] n = 123 -> "{" [] n = 125 -> "}"
      [] n = 34 -> "\"" [] n = 10 -> "\n"
Utf8Encode(t) == [i \in 1..Len(t) |-> CharCode(t[i])]
Utf8Decode(b) == [i \in 1..Len(b) |-> CodeChar(b[i])]

Bytes == {Utf8Encode(t) : t \in Texts}

\* Optional values: None is the empty tuple, Some(v) the one-element tuple.
None == << >>
Some(v) == <<v>>

\* The structured values written by write_json: the empty list and the empty dict.
JList == [t |-> "list"]
JDict == [t |-> "dict"]
JsonValues == {JList, JDict}

\* The empty tuple: json.dumps writes a tuple as a list, and a list is what
\* json.loads gives back (in Python () == [] is false).
JTuple == [t |-> "tuple"]

\* A Python str holding the text s.
JStr(s) == [t |-> "str", s |-> s]

\* The strings handed to write_json: one holding a JSON document, one that does not.
JsonStrings == {<<"[", "]">>, <<"a">>}

\* The structured data handed to write_json.
JsonInputs == JsonValues \cup {JTuple}

\* json.dumps(data); a str is written as a JSON string literal (the strings here
\* hold no character that needs an escape).
JsonDumps(v) ==
    IF v.t = "dict" THEN <<"{", "}">>
    ELSE IF v.t \in {"list", "tuple"} THEN <<"[", "]">>
    ELSE <<"\"">> \o v.s \o <<"\"">>

\* json.loads(text): the parsed value, or JSONDecodeError for a text that is no
\* JSON document (the empty string and "a" among them).
JsonLoads(text) ==
    IF text = <<"[", "]">> THEN [err |-> "none", val |-> Some(JList)]
    ELSE IF text = <<"{", "}">> THEN [err |-> "none", val |-> Some(JDict)]
    ELSE IF Len(text) >= 2 /\ text[1] = "\"" /\ text[Len(text)] = "\""
    THEN [err |-> "none", val |-> Some(JStr(SubSeq(text, 2, Len(text) - 1)))]
    ELSE [err |-> "JSONDecodeError", val |-> None]

JsonTexts == {JsonDumps(v) : v \in JsonValues}
JsonBytes == {Utf8Encode(t) : t \in JsonTexts}

\* The structured values written by safe_write_yaml.
YamlValues == {JList, JDict}

\* yaml.safe_dump(data): an empty collection is written in flow style, and the
\* document ends with a newline.
YamlDump(v) == (IF v.t = "dict" THEN <<"{", "}">> ELSE <<"[", "]">>) \o <<"\n">>

\* yaml.safe_load(text): the line break that ends the document is no content; an
\* empty document is null (Python's None), a flow collection is itself, a quoted
\* scalar is the str inside the quotes and a plain scalar (such as a) is a str.
YamlLoad(text) ==
    LET body == IF Len(text) > 0 /\ text[Len(text)] = "\n"
                THEN SubSeq(text, 1, Len(text) - 1) ELSE text
    IN IF body = << >> THEN None
       ELSE IF body = <<"[", "]">> THEN Some(JList)
       ELSE IF body = <<"{", "}">> THEN Some(JDict)
       ELSE IF Len(body) >= 2 /\ body[1] = "\"" /\ body[Len(body)] = "\""
       THEN Some(JStr(SubSeq(body, 2, Len(body) - 1)))
       ELSE Some(JStr(body))

Modes == {"text", "bytes"}
Slot(mode) == IF mode = "text" THEN "cached_text" ELSE "cached_bytes"
Other(mode) == IF mode = "text" THEN "cached_bytes" ELSE "cached_text"

(* ------------------------- path construction ------------------------- *)

\* A string is a sequence of characters.  A path is pathlib's `parts`: the
\* sequence of its segments, each a string, with the root first when it has one.
DigitChars == <<"0", "1", "2", "3", "4", "5", "6", "7", "8", "9">>

\* str(n) of a natural number
RECURSIVE NatStr(_)
NatStr(n) == IF n < 10 THEN <<DigitChars[n + 1]>>
             ELSE NatStr(n \div 10) \o <<DigitChars[(n % 10) + 1]>>

\* str(n) of an int
IntStr(n) == IF n < 0 THEN <<"-">> \o NatStr(0 - n) ELSE NatStr(n)

\* A number printed in at least w digits, as %m, %d, %H, %M, %S and %f print.
RECURSIVE ZeroPad(_, _)
ZeroPad(digits, w) == IF Len(digits) >= w THEN digits ELSE ZeroPad(<<"0">> \o digits, w)

\* A string without the zeros that end it.
RECURSIVE StripZeros(_)
StripZeros(digits) ==
    IF Len(digits) > 0 /\ digits[Len(digits)] = "0"
    THEN StripZeros(SubSeq(digits, 1, Len(digits) - 1))
    ELSE digits

\* str(x) of a float that is x.milli thousandths (not negative): the whole part,
\* a point, and the digits after the point, of which there is at least one.
FloatStr(x) ==
    LET frac == StripZeros(ZeroPad(NatStr(x.milli % 1000), 3)) IN
    NatStr(x.milli \div 1000) \o <<".">> \o (IF frac = << >> THEN <<"0">> ELSE frac)

\* str(d) of a date: its ISO format.
DateStr(d) ==
    ZeroPad(NatStr(d.year), 4) \o <<"-">> \o ZeroPad(NatStr(d.month), 2)
        \o <<"-">> \o ZeroPad(NatStr(d.day), 2)

\* str(d) of a datetime: date and time in ISO format with a space between, the
\* microseconds when there are any, the offset when the datetime is aware (UTC).
DatetimeStr(d) ==
    DateStr(d) \o <<" ">> \o ZeroPad(NatStr(d.hour), 2) \o <<":">>
        \o ZeroPad(NatStr(d.minute), 2) \o <<":">> \o ZeroPad(NatStr(d.second), 2)
        \o (IF d.microsecond = 0 THEN << >>
            ELSE <<".">> \o ZeroPad(NatStr(d.microsecond), 6))
        \o (IF d.aware THEN <<"+", "0", "0", ":", "0", "0">> ELSE << >>)

\* d.strftime("%Y-%m-%d, %H-%M-%S.%f") (%Y prints the year as it is: the years
\* here have four digits)
Strftime(d) ==
    NatStr(d.year) \o <<"-">> \o ZeroPad(NatStr(d.month), 2) \o <<"-">>
        \o ZeroPad(NatStr(d.day), 2) \o <<",", " ">>
        \o ZeroPad(NatStr(d.hour), 2) \o <<"-">> \o ZeroPad(NatStr(d.minute), 2)
        \o <<"-">> \o ZeroPad(NatStr(d.second), 2) \o <<".">>
        \o ZeroPad(NatStr(d.microsecond), 6)

\* str(arg) of an int, a float, a date, a datetime or a str
Str(arg) ==
    CASE arg.t = "int" -> IntStr(arg.v)
      [] arg.t = "float" -> FloatStr(arg)
      [] arg.t = "date" -> DateStr(arg)
      [] arg.t = "datetime" -> DatetimeStr(arg)
      [] arg.t = "str" -> arg.s

\* isinstance(arg, cls): a datetime is a date as well.
IsInstance(arg, cls) == arg.t = cls \/ (arg.t = "datetime" /\ cls = "date")

\* s.split("/"), cur being the piece begun
RECURSIVE Split(_, _)
Split(s, cur) ==
    IF s = << >> THEN <<cur>>
    ELSE IF Head(s) = "/" THEN <<cur>> \o Split(Tail(s), << >>)
    ELSE Split(Tail(s), Append(cur, Head(s)))

IsSegment(piece) == piece # << >> /\ piece # <<".">>

\* Path(s).parts: empty pieces and "." pieces are dropped, ".." is kept, and a
\* string that begins with a slash has the root as its first part.
Parts(s) ==
    LET segments == SelectSeq(Split(s, << >>), IsSegment) IN
    IF s # << >> /\ Head(s) = "/" THEN <<<<"/">>>> \o segments ELSE segments

\* left / right on parts: a right side with a root replaces the left side.
JoinParts(left, right) ==
    IF right # << >> /\ right[1] = <<"/">> THEN right ELSE left \o right

\* The parts but the first, each with a slash before it.
RECURSIVE SlashJoin(_)
SlashJoin(parts) ==
    IF parts = << >> THEN << >> ELSE <<"/">> \o Head(parts) \o SlashJoin(Tail(parts))

\* str(path), which is os.fspath(path): the empty path is ".".
Fspath(parts) ==
    IF parts = << >> THEN <<".">>
    ELSE IF parts[1] = <<"/">>
    THEN IF Len(parts) = 1 THEN <<"/">> ELSE SlashJoin(Tail(parts))
    ELSE Tail(SlashJoin(parts))

\* Path(*strings): the strings are parsed and joined from left to right.
RECURSIVE PathOf(_)
PathOf(strings) ==
    IF strings = << >> THEN << >>
    ELSE JoinParts(PathOf(SubSeq(strings, 1, Len(strings) - 1)),
                   Parts(strings[Len(strings)]))

\* Faulty variant of ConvertToPath: the date test comes before the datetime test.
ConvertToPathDateFirst(arg) ==
    IF \E cls \in {"date", "float", "int", "str"} : IsInstance(arg, cls)
    THEN Parts(Str(arg))
    ELSE IF IsInstance(arg, "datetime") THEN Parts(Strftime(arg))
    ELSE arg.parts

\* _convert_to_path(arg): the path (its parts) the argument is turned into.
ConvertToPath(arg) ==
    IF IsInstance(arg, "datetime") THEN Parts(Strftime(arg))
    ELSE IF \E cls \in {"date", "float", "int", "str"} : IsInstance(arg, cls)
    THEN Parts(Str(arg))
    ELSE arg.parts

\* PavedPath(*args): every argument is converted, and Path joins the fragments
\* through their os.fspath.
PavedPathNew(args) == PathOf([i \in 1..Len(args) |-> Fspath(ConvertToPath(args[i]))])

\* self / key
TrueDiv(parts, key) == JoinParts(parts, Parts(Fspath(ConvertToPath(key))))

\* The arguments a path is built from.
Abc == <<"a", "b", "c">>
Midnight == [t |-> "datetime", year |-> 2020, month |-> 1, day |-> 1, hour |-> 0,
             minute |-> 0, second |-> 0, microsecond |-> 0, aware |-> FALSE]
PathInputs ==
    {[t |-> "str", s |-> << >>], [t |-> "str", s |-> <<".">>],
     [t |-> "str", s |-> <<".", ".">>], [t |-> "str", s |-> Abc],
     [t |-> "str", s |-> Abc \o <<"/">> \o <<"d", ".", "g">>],
     [t |-> "str", s |-> <<"/">> \o Abc],
     [t |-> "int", v |-> 123], [t |-> "int", v |-> 0 - 1],
     [t |-> "float", milli |-> 123456], [t |-> "float", milli |-> 1000],
     [t |-> "date", year |-> 2020, month |-> 1, day |-> 1],
     Midnight, [Midnight EXCEPT !.aware = TRUE],
     [Midnight EXCEPT !.hour = 13, !.second = 5, !.microsecond = 70],
     [t |-> "Path", parts |-> <<Abc>>], [t |-> "PavedPath", parts |-> <<Abc>>]}

(* ---------------------------- filesystem ------------------------------ *)

\* The disk: the directory RootDir (dir: it exists) and the one file in it.
\* NoFile is the directory without the file, NoDir is neither.
NoFile == [exists |-> FALSE, content |-> << >>, mtime |-> 0, dir |-> TRUE]
NoDir == [exists |-> FALSE, content |-> << >>, mtime |-> 0, dir |-> FALSE]

\* Path.exists() on disk state f
Exists(f, p) == IF p = RootDir THEN f.dir ELSE p = FilePath /\ f.dir /\ f.exists

\* Path.read_text() / Path.read_bytes() of the collaborator: the raw read.
RawRead(f, p, mode) ==
    IF ~Exists(f, p) THEN [err |-> "FileNotFoundError", val |-> None]
    ELSE IF p = RootDir THEN [err |-> "IsADirectoryError", val |-> None]
    ELSE [err |-> "none",
          val |-> Some(IF mode = "text" THEN Utf8Decode(f.content) ELSE f.content)]

\* What Path.write_text / Path.write_bytes put on disk for `data`.
RawContent(mode, data) == IF mode = "text" THEN Utf8Encode(data) ELSE data

\* The ways the collaborator can fail a write: creating the parent directory
\* raises (the file is not touched), or the write raises after the file was
\* opened, and so truncated (an encoding error, a full disk).
Faults == {"none", "mkdir", "write"}

(* ------------------------------ PavedPath ----------------------------- *)

\* The class-level defaults every new instance starts from.
FreshCache ==
    [cached_text |-> None, cached_bytes |-> None, cache_timestamp |-> None,
     cached_json |-> None, cached_yaml |-> None]

\* Faulty variant of ClearedCache: the bytes slot is not cleared.
ClearedCacheKeepsBytes(c) ==
    [c EXCEPT !.cached_json = None, !.cached_yaml = None,
              !.cached_text = None, !.cache_timestamp = None]

\* Faulty variant of ClearedCache: the timestamp is not cleared.
ClearedCacheKeepsStamp(c) ==
    [c EXCEPT !.cached_json = None, !.cached_yaml = None,
              !.cached_text = None, !.cached_bytes = None]

\* Faulty variant of ClearedCache: the text slot is not cleared.
ClearedCacheKeepsText(c) ==
    [c EXCEPT !.cached_json = None, !.cached_yaml = None,
              !.cached_bytes = None, !.cache_timestamp = None]

\* Faulty variant of ClearedCache: JSONFile does not override clear_cache.
ClearedCacheKeepsJson(c) ==
    [c EXCEPT !.cached_yaml = None,
              !.cached_text = None, !.cached_bytes = None, !.cache_timestamp = None]

\* Faulty variant of ClearedCache: YAMLFile does not override clear_cache.
ClearedCacheKeepsYaml(c) ==
    [c EXCEPT !.cached_json = None,
              !.cached_text = None, !.cached_bytes = None, !.cache_timestamp = None]

\* clear_cache(): the fields of the handle after the call.  JSONFile.clear_cache
\* empties cached_json, and YAMLFile.clear_cache cached_yaml, and then calls
\* PavedPath.clear_cache.
ClearedCache(c) ==
    [c EXCEPT !.cached_json = None, !.cached_yaml = None,
              !.cached_text = None, !.cached_bytes = None, !.cache_timestamp = None]

\* aware_mtime(): the modification time of the file (taken of a regular file only:
\* the directory handle never fills a slot and so never reaches a comparison).
AwareMtime(f, p) == f.mtime

\* Faulty variant of IsUpToDate: a file as old as the timestamp counts as newer.
IsUpToDateNotStrict(f, p, timestamp) ==
    IF ~Exists(f, p) THEN FALSE
    ELSE IF timestamp = None THEN TRUE
    ELSE AwareMtime(f, p) >= timestamp[1]

\* Faulty variant of IsUpToDate: the two times are compared the wrong way around.
IsUpToDateReversed(f, p, timestamp) ==
    IF ~Exists(f, p) THEN FALSE
    ELSE IF timestamp = None THEN TRUE
    ELSE AwareMtime(f, p) < timestamp[1]

\* Faulty variant of IsUpToDate: a file that does not exist counts as newer.
IsUpToDateMissingIsNewer(f, p, timestamp) ==
    IF ~Exists(f, p) THEN TRUE
    ELSE IF timestamp = None THEN TRUE
    ELSE AwareMtime(f, p) > timestamp[1]

\* is_up_to_date(timestamp)
IsUpToDate(f, p, timestamp) ==
    IF ~Exists(f, p) THEN FALSE
    ELSE IF timestamp = None THEN TRUE
    ELSE AwareMtime(f, p) > timestamp[1]

\* Faulty variant of IsOutdated: the timestamp is not passed on to is_up_to_date.
IsOutdatedDropsTimestamp(f, p, timestamp) == ~IsUpToDate(f, p, None)

\* is_outdated(timestamp)
IsOutdated(f, p, timestamp) == ~IsUpToDate(f, p, timestamp)

\* Faulty variant of NeedsRefresh: the file is compared whether or not check_file is set.
NeedsRefreshAlwaysChecks(c, f, p, mode, reload, check_file) ==
    \/ c[Slot(mode)] = None
    \/ reload
    \/ IsUpToDate(f, p, c.cache_timestamp)

\* Faulty variant of NeedsRefresh: reload is not looked at.
NeedsRefreshIgnoresReload(c, f, p, mode, reload, check_file) ==
    \/ c[Slot(mode)] = None
    \/ (check_file /\ IsUpToDate(f, p, c.cache_timestamp))

\* Faulty variant of NeedsRefresh: the cache counts as empty only when both slots are.
NeedsRefreshWholeCache(c, f, p, mode, reload, check_file) ==
    \/ (c.cached_text = None /\ c.cached_bytes = None)
    \/ reload
    \/ (check_file /\ IsUpToDate(f, p, c.cache_timestamp))

\* The condition of read_text / read_bytes under which the disk is read again.
NeedsRefresh(c, f, p, mode, reload, check_file) ==
    \/ c[Slot(mode)] = None
    \/ reload
    \/ (check_file /\ IsUpToDate(f, p, c.cache_timestamp))

\* The collaborator calls the evaluation of that condition makes (Python's `or`
\* stops at the first true operand).
CheckIo(c, f, p, mode, reload, check_file) ==
    IF c[Slot(mode)] # None /\ ~reload /\ check_file
    THEN {"exists"} \cup (IF Exists(f, p) /\ c.cache_timestamp # None THEN {"stat"} ELSE {})
    ELSE {}

\* Faulty variant of ReadCached: a refresh stores the content and keeps the old timestamp.
ReadCachedKeepsStamp(c, f, p, mode, reload, check_file, bypass_cache) ==
    LET r == RawRead(f, p, mode) IN
    IF bypass_cache
    THEN [cache |-> c, err |-> r.err, ret |-> r.val, io |-> {"read"}]
    ELSE IF NeedsRefresh(c, f, p, mode, reload, check_file)
    THEN IF r.err # "none"
         THEN [cache |-> c, err |-> r.err, ret |-> None,
               io |-> CheckIo(c, f, p, mode, reload, check_file) \cup {"read"}]
         ELSE [cache |-> [c EXCEPT ![Slot(mode)] = r.val],
               err |-> "none", ret |-> r.val,
               io |-> CheckIo(c, f, p, mode, reload, check_file) \cup {"read"}]
    ELSE [cache |-> c, err |-> "none", ret |-> c[Slot(mode)],
          io |-> CheckIo(c, f, p, mode, reload, check_file)]

\* Faulty variant of ReadCached: a bypassing read clears the cache, as the docstring of
\* read_text has it ("the cache will be cleared out and not used").
ReadCachedBypassClears(c, f, p, mode, reload, check_file, bypass_cache) ==
    LET r == RawRead(f, p, mode) IN
    IF bypass_cache
    THEN [cache |-> ClearedCache(c), err |-> r.err, ret |-> r.val, io |-> {"read"}]
    ELSE IF NeedsRefresh(c, f, p, mode, reload, check_file)
    THEN IF r.err # "none"
         THEN [cache |-> c, err |-> r.err, ret |-> None,
               io |-> CheckIo(c, f, p, mode, reload, check_file) \cup {"read"}]
         ELSE [cache |-> [c EXCEPT ![Slot(mode)] = r.val,
                                   !.cache_timestamp = Some(AwareMtime(f, p))],
               err |-> "none", ret |-> r.val,
               io |-> CheckIo(c, f, p, mode, reload, check_file) \cup {"read", "stat"}]
    ELSE [cache |-> c, err |-> "none", ret |-> c[Slot(mode)],
          io |-> CheckIo(c, f, p, mode, reload, check_file)]

\* Faulty variant of ReadCached: a refresh empties the cache before it reads the
\* file, as a write does, so a read that raises leaves the cache empty.
ReadCachedClearsFirst(c, f, p, mode, reload, check_file, bypass_cache) ==
    LET r == RawRead(f, p, mode) IN
    IF bypass_cache
    THEN [cache |-> c, err |-> r.err, ret |-> r.val, io |-> {"read"}]
    ELSE IF NeedsRefresh(c, f, p, mode, reload, check_file)
    THEN IF r.err # "none"
         THEN [cache |-> ClearedCache(c), err |-> r.err, ret |-> None,
               io |-> CheckIo(c, f, p, mode, reload, check_file) \cup {"read"}]
         ELSE [cache |-> [c EXCEPT ![Slot(mode)] = r.val,
                                   !.cache_timestamp = Some(AwareMtime(f, p))],
               err |-> "none", ret |-> r.val,
               io |-> CheckIo(c, f, p, mode, reload, check_file) \cup {"read", "stat"}]
    ELSE [cache |-> c, err |-> "none", ret |-> c[Slot(mode)],
          io |-> CheckIo(c, f, p, mode, reload, check_file)]

\* read_text / read_bytes on a handle with cache c and path p, disk state f:
\* the handle's cache afterwards, the error raised, the value returned and the
\* collaborator calls made.
ReadCached(c, f, p, mode, reload, check_file, bypass_cache) ==
    LET r == RawRead(f, p, mode) IN
    IF bypass_cache
    THEN [cache |-> c, err |-> r.err, ret |-> r.val, io |-> {"read"}]
    ELSE IF NeedsRefresh(c, f, p, mode, reload, check_file)
    THEN IF r.err # "none"
         THEN [cache |-> c, err |-> r.err, ret |-> None,
               io |-> CheckIo(c, f, p, mode, reload, check_file) \cup {"read"}]
         ELSE [cache |-> [c EXCEPT ![Slot(mode)] = r.val,
                                   !.cache_timestamp = Some(AwareMtime(f, p))],
               err |-> "none", ret |-> r.val,
               io |-> CheckIo(c, f, p, mode, reload, check_file) \cup {"read", "stat"}]
    ELSE [cache |-> c, err |-> "none", ret |-> c[Slot(mode)],
          io |-> CheckIo(c, f, p, mode, reload, check_file)]

\* Faulty variant of WrittenCache: bypass_cache is not looked at.
WrittenCacheIgnoresBypass(c, f, p, mode, data, bypass_cache) ==
    [c EXCEPT ![Slot(mode)] = Some(data),
              !.cache_timestamp = Some(AwareMtime(f, p))]

\* The cache after a write that reached the disk: filled unless bypassed.
WrittenCache(c, f, p, mode, data, bypass_cache) ==
    IF bypass_cache THEN c
    ELSE [c EXCEPT ![Slot(mode)] = Some(data),
                   !.cache_timestamp = Some(AwareMtime(f, p))]

\* Faulty variant of WriteCached: the cache is cleared after the disk write instead of
\* before it, so a write that raises leaves the cache as it was.
WriteCachedClearsLate(c, f, p, mode, data, bypass_cache, fault, t) ==
    LET c1 == ClearedCache(c)
        written == [exists |-> TRUE, content |-> RawContent(mode, data), mtime |-> t,
                    dir |-> TRUE]
        truncated == [exists |-> TRUE, content |-> << >>, mtime |-> t, dir |-> TRUE]
    IN
    IF fault = "mkdir"
    THEN [cache |-> c, file |-> f, err |-> "PermissionError", io |-> {"mkdir"}]
    ELSE IF p = RootDir
    THEN [cache |-> c, file |-> f, err |-> "IsADirectoryError", io |-> {"mkdir", "write"}]
    ELSE IF fault = "write"
    THEN [cache |-> c, file |-> truncated, err |-> "OSError", io |-> {"mkdir", "write"}]
    ELSE [cache |-> WrittenCache(c1, written, p, mode, data, bypass_cache),
          file |-> written, err |-> "none",
          io |-> {"mkdir", "write"} \cup (IF bypass_cache THEN {} ELSE {"stat"})]

\* write_text / write_bytes at clock t: cache and disk afterwards, error raised.
\* mkdir(parents=True, exist_ok=True) creates the directory of the file when it is
\* missing.  (A handle on the directory is written through only while the
\* directory exists.)
WriteCached(c, f, p, mode, data, bypass_cache, fault, t) ==
    LET c1 == ClearedCache(c)
        written == [exists |-> TRUE, content |-> RawContent(mode, data), mtime |-> t,
                    dir |-> TRUE]
        truncated == [exists |-> TRUE, content |-> << >>, mtime |-> t, dir |-> TRUE]
    IN
    IF fault = "mkdir"
    THEN [cache |-> c1, file |-> f, err |-> "PermissionError", io |-> {"mkdir"}]
    ELSE IF p = RootDir
    THEN [cache |-> c1, file |-> f, err |-> "IsADirectoryError", io |-> {"mkdir", "write"}]
    ELSE IF fault = "write"
    THEN [cache |-> c1, file |-> truncated, err |-> "OSError", io |-> {"mkdir", "write"}]
    ELSE [cache |-> WrittenCache(c1, written, p, mode, data, bypass_cache),
          file |-> written, err |-> "none",
          io |-> {"mkdir", "write"} \cup (IF bypass_cache THEN {} ELSE {"stat"})]

\* Faulty variant of UnlinkCached: the file is deleted and the cache is kept.
UnlinkKeepsCache(c, f, p, missing_ok) ==
    IF ~Exists(f, p)
    THEN [cache |-> c, file |-> f, err |-> IF missing_ok THEN "none" ELSE "FileNotFoundError"]
    ELSE IF p = RootDir
    THEN [cache |-> c, file |-> f, err |-> "IsADirectoryError"]
    ELSE [cache |-> c, file |-> NoFile, err |-> "none"]

\* Faulty variant of UnlinkCached: the cache is cleared before the collaborator's
\* unlink is called, as a write clears it.
UnlinkClearsFirst(c, f, p, missing_ok) ==
    IF ~Exists(f, p)
    THEN [cache |-> ClearedCache(c), file |-> f,
          err |-> IF missing_ok THEN "none" ELSE "FileNotFoundError"]
    ELSE IF p = RootDir
    THEN [cache |-> ClearedCache(c), file |-> f, err |-> "IsADirectoryError"]
    ELSE [cache |-> ClearedCache(c), file |-> NoFile, err |-> "none"]

\* unlink(missing_ok): the cache is cleared after the collaborator's unlink returned.
UnlinkCached(c, f, p, missing_ok) ==
    IF ~Exists(f, p)
    THEN IF missing_ok
         THEN [cache |-> ClearedCache(c), file |-> f, err |-> "none"]
         ELSE [cache |-> c, file |-> f, err |-> "FileNotFoundError"]
    ELSE IF p = RootDir
    THEN [cache |-> c, file |-> f, err |-> "IsADirectoryError"]
    ELSE [cache |-> ClearedCache(c), file |-> NoFile, err |-> "none"]

\* The ways shutil.rmtree can fail on a directory it has emptied: the removal of
\* the directory itself raises.
RmFaults == {"none", "rmdir"}

\* rmdir(): Path.rmdir() of the collaborator, and nothing else.
RmdirCached(c, f, p) ==
    IF ~Exists(f, p) THEN [cache |-> c, file |-> f, err |-> "FileNotFoundError"]
    ELSE IF p # RootDir THEN [cache |-> c, file |-> f, err |-> "NotADirectoryError"]
    ELSE IF f.exists THEN [cache |-> c, file |-> f, err |-> "OSError"]
    ELSE [cache |-> c, file |-> NoDir, err |-> "none"]

\* Faulty variant of RmtreeCached: the cache of the handle is cleared before the
\* tree is removed, as a write clears it.
RmtreeCachedClearsFirst(c, f, p, fault) ==
    IF ~Exists(f, p) THEN [cache |-> ClearedCache(c), file |-> f, err |-> "FileNotFoundError"]
    ELSE IF p # RootDir
    THEN [cache |-> ClearedCache(c), file |-> f, err |-> "NotADirectoryError"]
    ELSE IF fault = "rmdir" THEN [cache |-> ClearedCache(c), file |-> NoFile, err |-> "OSError"]
    ELSE [cache |-> ClearedCache(c), file |-> NoDir, err |-> "none"]

\* rmtree(): shutil.rmtree(self), and nothing else.  The directory goes with the
\* file in it; on a path that is a file, or is missing, the call raises.
RmtreeCached(c, f, p, fault) ==
    IF ~Exists(f, p) THEN [cache |-> c, file |-> f, err |-> "FileNotFoundError"]
    ELSE IF p # RootDir THEN [cache |-> c, file |-> f, err |-> "NotADirectoryError"]
    ELSE IF fault = "rmdir" THEN [cache |-> c, file |-> NoFile, err |-> "OSError"]
    ELSE [cache |-> c, file |-> NoDir, err |-> "none"]

(* ------------------------------ JSONFile ------------------------------ *)

\* The condition of read_json under which the text is read and parsed again.
NeedsParse(c, f, p, reload, check_file) ==
    \/ c.cached_json = None
    \/ reload
    \/ (check_file /\ IsUpToDate(f, p, c.cache_timestamp))

\* The collaborator calls the evaluation of that condition makes.
ParseCheckIo(c, f, p, reload, check_file) ==
    IF c.cached_json # None /\ ~reload /\ check_file
    THEN {"exists"} \cup (IF Exists(f, p) /\ c.cache_timestamp # None THEN {"stat"} ELSE {})
    ELSE {}

\* Faulty variant of ReadJsonCached: the flags are not passed on to read_text, so a
\* populated text cache is parsed again instead of the file.
ReadJsonCachedDropsFlags(c, f, p, reload, check_file, bypass_cache) ==
    LET io == ParseCheckIo(c, f, p, reload, check_file) IN
    IF NeedsParse(c, f, p, reload, check_file)
    THEN LET r == ReadCached(c, f, p, "text", FALSE, FALSE, FALSE) IN
         IF r.err # "none"
         THEN [cache |-> r.cache, err |-> r.err, ret |-> None, io |-> io \cup r.io]
         ELSE IF bypass_cache
         THEN [cache |-> r.cache, err |-> "TypeError", ret |-> None, io |-> io \cup r.io]
         ELSE LET l == JsonLoads(r.ret[1]) IN
              IF l.err # "none"
              THEN [cache |-> r.cache, err |-> l.err, ret |-> None, io |-> io \cup r.io]
              ELSE [cache |-> [r.cache EXCEPT !.cached_json = l.val],
                    err |-> "none", ret |-> l.val, io |-> io \cup r.io]
    ELSE [cache |-> c, err |-> "none", ret |-> c.cached_json, io |-> io]

\* read_json(reload, check_file, **options): the text comes from read_text with
\* the same flags; json.loads raises after read_text has returned, and so after
\* the text cache was refreshed.  read_json has no bypass_cache parameter: a
\* bypass_cache keyword (bypass_cache true here) is one of **options and goes to
\* json.loads, which raises TypeError for a keyword it does not know; a call
\* served from cached_json never looks at the options.
ReadJsonCached(c, f, p, reload, check_file, bypass_cache) ==
    LET io == ParseCheckIo(c, f, p, reload, check_file) IN
    IF NeedsParse(c, f, p, reload, check_file)
    THEN LET r == ReadCached(c, f, p, "text", reload, check_file, FALSE) IN
         IF r.err # "none"
         THEN [cache |-> r.cache, err |-> r.err, ret |-> None, io |-> io \cup r.io]
         ELSE IF bypass_cache
         THEN [cache |-> r.cache, err |-> "TypeError", ret |-> None, io |-> io \cup r.io]
         ELSE LET l == JsonLoads(r.ret[1]) IN
              IF l.err # "none"
              THEN [cache |-> r.cache, err |-> l.err, ret |-> None, io |-> io \cup r.io]
              ELSE [cache |-> [r.cache EXCEPT !.cached_json = l.val],
                    err |-> "none", ret |-> l.val, io |-> io \cup r.io]
    ELSE [cache |-> c, err |-> "none", ret |-> c.cached_json, io |-> io]

\* write_json(data, **options): write_text(json.dumps(data, **options)), and
\* nothing after it.  write_json has no bypass_cache parameter: a bypass_cache
\* keyword goes to json.dumps, which raises TypeError before write_text is called.
WriteJsonCached(c, f, p, data, bypass_cache, fault, t) ==
    IF bypass_cache
    THEN [cache |-> c, file |-> f, err |-> "TypeError", io |-> {}]
    ELSE WriteCached(c, f, p, "text", JsonDumps(data), FALSE, fault, t)

(* ------------------------------ YAMLFile ------------------------------ *)

\* The condition of safe_read_yaml under which the text is read and parsed again.
NeedsYamlParse(c, f, p, reload, check_file) ==
    \/ c.cached_yaml = None
    \/ reload
    \/ (check_file /\ IsUpToDate(f, p, c.cache_timestamp))

\* safe_read_yaml(reload, check_file)
ReadYamlCached(c, f, p, reload, check_file) ==
    IF NeedsYamlParse(c, f, p, reload, check_file)
    THEN LET r == ReadCached(c, f, p, "text", reload, check_file, FALSE) IN
         IF r.err # "none"
         THEN [cache |-> r.cache, err |-> r.err, ret |-> None]
         ELSE [cache |-> [r.cache EXCEPT !.cached_yaml = YamlLoad(r.ret[1])],
               err |-> "none", ret |-> YamlLoad(r.ret[1])]
    ELSE [cache |-> c, err |-> "none", ret |-> c.cached_yaml]

\* Faulty variant of WriteYamlCached: the data written is kept in cached_yaml.
WriteYamlCachedWriteThrough(c, f, p, data, encoding, fault, t) ==
    LET r == IF encoding
             THEN WriteCached(c, f, p, "bytes", Utf8Encode(YamlDump(data)), FALSE, fault, t)
             ELSE WriteCached(c, f, p, "text", YamlDump(data), FALSE, fault, t)
    IN IF r.err = "none"
       THEN [r EXCEPT !.cache = [r.cache EXCEPT !.cached_yaml = Some(data)]]
       ELSE r

\* safe_write_yaml(data, **options): with an encoding option (encoding true: utf-8)
\* yaml.safe_dump gives bytes, which go to write_bytes; without one it gives text,
\* which goes to write_text.  Nothing is done after the write.
WriteYamlCached(c, f, p, data, encoding, fault, t) ==
    IF encoding
    THEN WriteCached(c, f, p, "bytes", Utf8Encode(YamlDump(data)), FALSE, fault, t)
    ELSE WriteCached(c, f, p, "text", YamlDump(data), FALSE, fault, t)

(* ---------------- the earlier PavedPath (__init__.py) ----------------- *)

\* src/src/paved_path/__init__.py: the version of the class whose writes take
\* write_through and clear_cache flags, whose reads take skip_cache, and whose
\* reads and write_bytes stamp the cache with the wall clock.

\* clear_cache() of the earlier version
EarlyClearedCache(c) ==
    [c EXCEPT !.cached_text = None, !.cached_bytes = None, !.cache_timestamp = None]

\* write_text / write_bytes of the earlier version at clock t.  write_text takes
\* the timestamp from aware_mtime(), write_bytes from datetime.now().
EarlyWriteCached(c, f, p, mode, data, write_through, clear_cache, fault, t) ==
    LET c1 == IF clear_cache THEN EarlyClearedCache(c) ELSE c
        written == [exists |-> TRUE, content |-> RawContent(mode, data), mtime |-> t,
                    dir |-> TRUE]
        truncated == [exists |-> TRUE, content |-> << >>, mtime |-> t, dir |-> TRUE]
    IN
    IF fault = "mkdir" THEN [cache |-> c1, file |-> f, err |-> "PermissionError"]
    ELSE IF p = RootDir THEN [cache |-> c1, file |-> f, err |-> "IsADirectoryError"]
    ELSE IF fault = "write" THEN [cache |-> c1, file |-> truncated, err |-> "OSError"]
    ELSE [cache |-> IF write_through
                    THEN [c1 EXCEPT ![Slot(mode)] = Some(data),
                                    !.cache_timestamp =
                                        Some(IF mode = "text" THEN AwareMtime(written, p)
                                             ELSE t)]
                    ELSE c1,
          file |-> written, err |-> "none"]

\* read_text / read_bytes of the earlier version at clock t: a refresh stamps the
\* cache with datetime.now().
EarlyReadCached(c, f, p, mode, reload, check_file, skip_cache, t) ==
    LET r == RawRead(f, p, mode) IN
    IF skip_cache THEN [cache |-> c, err |-> r.err, ret |-> r.val]
    ELSE IF NeedsRefresh(c, f, p, mode, reload, check_file)
    THEN IF r.err # "none" THEN [cache |-> c, err |-> r.err, ret |-> None]
         ELSE [cache |-> [c EXCEPT ![Slot(mode)] = r.val, !.cache_timestamp = Some(t)],
               err |-> "none", ret |-> r.val]
    ELSE [cache |-> c, err |-> "none", ret |-> c[Slot(mode)]]

(* ------------------------------- state -------------------------------- *)

\* now:   the filesystem clock
\* file:  the file d/f on disk
\* live:  the handles constructed so far
\* path:  each handle's path
\* cache: each handle's cached_text, cached_bytes, cache_timestamp, cached_json
\*        and cached_yaml
\* last:  the last call: its name, the handle it was made on, its flags, the
\*        reference timestamp it was given, the error it raised ("none" when it
\*        returned) and the value it returned
NoCall == [op |-> "none", h |-> "A", reload |-> FALSE, check_file |-> FALSE,
           bypass_cache |-> FALSE, timestamp |-> None, err |-> "none", ret |-> None]

Call(op, h) == [NoCall EXCEPT !.op = op, !.h = h]

ReadOp(mode) == IF mode = "text" THEN "read_text" ELSE "read_bytes"
WriteOp(mode) == IF mode = "text" THEN "write_text" ELSE "write_bytes"

Init ==
    /\ now = 0
    /\ file = NoFile
    /\ live = {"A"}
    /\ path = [h \in Handles |-> IF h = "A" THEN FilePath ELSE << >>]
    /\ cache = [h \in Handles |-> FreshCache]
    /\ last = NoCall

(* ------------------------------ actions ------------------------------- *)

\* Faulty variant of Store: the cache fields are shared by all instances of the class.
StoreShared(h, c) == [g \in Handles |-> c]

\* Assignment to the fields of one instance: self.cached_text = ..., and so on.
Store(h, c) == [cache EXCEPT ![h] = c]

\* PavedPath(src): a new handle on the same path.
Construct(src, new) ==
    /\ src \in live /\ new \notin live
    /\ live' = live \cup {new}
    /\ path' = [path EXCEPT ![new] = path[src]]
    /\ cache' = Store(new, FreshCache)
    /\ last' = Call("construct", new)
    /\ UNCHANGED <<now, file>>

\* PavedPath(temp.name): a new handle on the directory of the file.
ConstructDir(new) ==
    /\ new \notin live
    /\ live' = live \cup {new}
    /\ path' = [path EXCEPT ![new] = RootDir]
    /\ cache' = Store(new, FreshCache)
    /\ last' = Call("construct", new)
    /\ UNCHANGED <<now, file>>

\* PavedPath(*args), with one argument or two: a new handle on the path built.
PavedPathOf(new, args) ==
    /\ new \notin live
    /\ live' = live \cup {new}
    /\ path' = [path EXCEPT ![new] = PavedPathNew(args)]
    /\ cache' = Store(new, FreshCache)
    /\ last' = Call("PavedPath", new)
    /\ UNCHANGED <<now, file>>

\* src / key: a new handle on the path of src joined with the key.
Div(src, new, key) ==
    /\ src \in live /\ new \notin live
    /\ live' = live \cup {new}
    /\ path' = [path EXCEPT ![new] = TrueDiv(path[src], key)]
    /\ cache' = Store(new, FreshCache)
    /\ last' = Call("truediv", new)
    /\ UNCHANGED <<now, file>>

\* Faulty variant of Join: the joined handle inherits the cache of its parent.
JoinInheritsCache(src, new, frag) ==
    /\ src \in live /\ new \notin live
    /\ live' = live \cup {new}
    /\ path' = [path EXCEPT ![new] = JoinPath(path[src], frag)]
    /\ cache' = Store(new, cache[src])
    /\ last' = Call("join", new)
    /\ UNCHANGED <<now, file>>

\* src / frag: a new handle on the joined path.
Join(src, new, frag) ==
    /\ src \in live /\ new \notin live
    /\ live' = live \cup {new}
    /\ path' = [path EXCEPT ![new] = JoinPath(path[src], frag)]
    /\ cache' = Store(new, FreshCache)
    /\ last' = Call("join", new)
    /\ UNCHANGED <<now, file>>

Read(h, mode, reload, check_file, bypass_cache) ==
    /\ h \in live
    /\ LET r == ReadCached(cache[h], file, path[h], mode, reload, check_file, bypass_cache) IN
       /\ cache' = Store(h, r.cache)
       /\ last' = [Call(ReadOp(mode), h)
                     EXCEPT !.reload = reload, !.check_file = check_file,
                            !.bypass_cache = bypass_cache, !.err = r.err, !.ret = r.ret]
    /\ UNCHANGED <<now, file, live, path>>

ReadText(h, reload, check_file, bypass_cache) ==
    Read(h, "text", reload, check_file, bypass_cache)

ReadBytes(h, reload, check_file, bypass_cache) ==
    Read(h, "bytes", reload, check_file, bypass_cache)

Write(h, mode, data, bypass_cache, fault) ==
    /\ h \in live
    /\ LET r == WriteCached(cache[h], file, path[h], mode, data, bypass_cache, fault, now) IN
       /\ cache' = Store(h, r.cache)
       /\ file' = r.file
       /\ last' = [Call(WriteOp(mode), h)
                     EXCEPT !.bypass_cache = bypass_cache, !.err = r.err]
    /\ UNCHANGED <<now, live, path>>

WriteText(h, data, bypass_cache, fault) == Write(h, "text", data, bypass_cache, fault)

WriteBytes(h, data, bypass_cache, fault) == Write(h, "bytes", data, bypass_cache, fault)

ClearCache(h) ==
    /\ h \in live
    /\ cache' = Store(h, ClearedCache(cache[h]))
    /\ last' = Call("clear_cache", h)
    /\ UNCHANGED <<now, file, live, path>>

Unlink(h, missing_ok) ==
    /\ h \in live
    /\ LET r == UnlinkCached(cache[h], file, path[h], missing_ok) IN
       /\ cache' = Store(h, r.cache)
       /\ file' = r.file
       /\ last' = [Call("unlink", h) EXCEPT !.err = r.err]
    /\ UNCHANGED <<now, live, path>>

ReadJson(h, reload, check_file, bypass_cache) ==
    /\ h \in live
    /\ LET r == ReadJsonCached(cache[h], file, path[h], reload, check_file, bypass_cache) IN
       /\ cache' = Store(h, r.cache)
       /\ last' = [Call("read_json", h)
                     EXCEPT !.reload = reload, !.check_file = check_file,
                            !.bypass_cache = bypass_cache,
                            !.err = r.err, !.ret = r.ret]
    /\ UNCHANGED <<now, file, live, path>>

WriteJson(h, data, bypass_cache, fault) ==
    /\ h \in live
    /\ LET r == WriteJsonCached(cache[h], file, path[h], data, bypass_cache, fault, now) IN
       /\ cache' = Store(h, r.cache)
       /\ file' = r.file
       /\ last' = [Call("write_json", h)
                     EXCEPT !.bypass_cache = bypass_cache, !.err = r.err]
    /\ UNCHANGED <<now, live, path>>

SafeReadYaml(h, reload, check_file) ==
    /\ h \in live
    /\ LET r == ReadYamlCached(cache[h], file, path[h], reload, check_file) IN
       /\ cache' = Store(h, r.cache)
       /\ last' = [Call("safe_read_yaml", h)
                     EXCEPT !.reload = reload, !.check_file = check_file,
                            !.err = r.err, !.ret = r.ret]
    /\ UNCHANGED <<now, file, live, path>>

SafeWriteYaml(h, data, encoding, fault) ==
    /\ h \in live
    /\ LET r == WriteYamlCached(cache[h], file, path[h], data, encoding, fault, now) IN
       /\ cache' = Store(h, r.cache)
       /\ file' = r.file
       /\ last' = [Call("safe_write_yaml", h) EXCEPT !.err = r.err]
    /\ UNCHANGED <<now, live, path>>

Rmdir(h) ==
    /\ h \in live
    /\ LET r == RmdirCached(cache[h], file, path[h]) IN
       /\ cache' = Store(h, r.cache)
       /\ file' = r.file
       /\ last' = [Call("rmdir", h) EXCEPT !.err = r.err]
    /\ UNCHANGED <<now, live, path>>

Rmtree(h, fault) ==
    /\ h \in live
    /\ LET r == RmtreeCached(cache[h], file, path[h], fault) IN
       /\ cache' = Store(h, r.cache)
       /\ file' = r.file
       /\ last' = [Call("rmtree", h) EXCEPT !.err = r.err]
    /\ UNCHANGED <<now, live, path>>

\* A refreshing read is between its two filesystem steps: the content is in the
\* slot and the modification time has not been looked up yet.
MtimeOp(mode) == IF mode = "text" THEN "read_text:mtime" ELSE "read_bytes:mtime"
InFlight == last.op \in {MtimeOp("text"), MtimeOp("bytes")}

\* The first filesystem step of read_text / read_bytes (bypass_cache false):
\* self.cached_text = super().read_text().  A read that serves the cache, or
\* whose raw read raises, is over with this step.
ReadContent(h, mode, reload, check_file) ==
    /\ h \in live /\ ~InFlight
    /\ LET r == RawRead(file, path[h], mode) IN
       IF NeedsRefresh(cache[h], file, path[h], mode, reload, check_file) /\ r.err = "none"
       THEN /\ cache' = Store(h, [cache[h] EXCEPT ![Slot(mode)] = r.val])
            /\ last' = [Call(MtimeOp(mode), h)
                          EXCEPT !.reload = reload, !.check_file = check_file,
                                 !.ret = r.val]
            /\ UNCHANGED <<now, file, live, path>>
       ELSE Read(h, mode, reload, check_file, FALSE)

\* The second step: self.cache_timestamp = self.aware_mtime(), of the file as it
\* is now, and the return of the slot.
ReadMtime(h) ==
    /\ h \in live /\ InFlight /\ last.h = h
    /\ LET mode == IF last.op = MtimeOp("text") THEN "text" ELSE "bytes" IN
       IF Exists(file, path[h])
       THEN /\ cache' = Store(h, [cache[h] EXCEPT
                                    !.cache_timestamp = Some(AwareMtime(file, path[h]))])
            /\ last' = [last EXCEPT !.op = ReadOp(mode), !.ret = cache[h][Slot(mode)]]
       ELSE /\ cache' = cache
            /\ last' = [last EXCEPT !.op = ReadOp(mode), !.err = "FileNotFoundError",
                                    !.ret = None]
    /\ UNCHANGED <<now, file, live, path>>

\* Another writer writes the file at a later time than any the clock has shown,
\* whatever the handle is doing.
RacingWrite(data) ==
    /\ now < MaxTime /\ file.dir
    /\ now' = now + 1
    /\ file' = [exists |-> TRUE, content |-> data, mtime |-> now + 1, dir |-> TRUE]
    /\ UNCHANGED <<live, path, cache, last>>

EarlyWrite(h, mode, data, write_through, clear_cache, fault) ==
    /\ h \in live
    /\ LET r == EarlyWriteCached(cache[h], file, path[h], mode, data, write_through,
                                 clear_cache, fault, now) IN
       /\ cache' = Store(h, r.cache)
       /\ file' = r.file
       /\ last' = [Call(WriteOp(mode), h) EXCEPT !.bypass_cache = ~write_through,
                                                 !.err = r.err]
    /\ UNCHANGED <<now, live, path>>

EarlyRead(h, mode, reload, check_file, skip_cache) ==
    /\ h \in live
    /\ LET r == EarlyReadCached(cache[h], file, path[h], mode, reload, check_file,
                                skip_cache, now) IN
       /\ cache' = Store(h, r.cache)
       /\ last' = [Call(ReadOp(mode), h)
                     EXCEPT !.reload = reload, !.check_file = check_file,
                            !.bypass_cache = skip_cache, !.err = r.err, !.ret = r.ret]
    /\ UNCHANGED <<now, file, live, path>>

(* ------------- the legacy PavedPath (CobblestoneCache) --------------- *)

\* src/paved_path/__init__.py.  A handle's cache is a CobblestoneCache object.
\* PavedPath.cache is an object of the class; __init__ gives the instance one
\* of its own, and so does clear_cache; a handle made by a join is made
\* without __init__, and until its first clear_cache its self.cache is the
\* object of the class.  In this part `cache` is the record of the instances'
\* objects (None: the instance has no attribute of its own) and the class's.

\* CobblestoneCache()
CobblestoneCache == [read_text |-> None, read_bytes |-> None]

LegacySlot(mode) == IF mode = "text" THEN "read_text" ELSE "read_bytes"

\* self.cache: the attribute of the instance if it has one, else of the class.
SelfCache(h) == IF cache.instance[h] = None THEN cache.class ELSE cache.instance[h][1]

\* self.cache.<slot> = value: the object self.cache refers to is changed.
SetSlot(caches, h, slot, value) ==
    IF caches.instance[h] = None
    THEN [caches EXCEPT !.class[slot] = value]
    ELSE [caches EXCEPT !.instance[h] = Some([@[1] EXCEPT ![slot] = value])]

\* self.clear_cache(): self.cache = type(self.cache)()
LegacyCleared(caches, h) == [caches EXCEPT !.instance[h] = Some(CobblestoneCache)]

\* PavedPath("test_data/file.txt"): __init__ runs.
LegacyNew(new) ==
    /\ live = {}
    /\ live' = {new}
    /\ path' = [path EXCEPT ![new] = FilePath]
    /\ cache' = LegacyCleared(cache, new)
    /\ last' = Call("PavedPath", new)
    /\ UNCHANGED <<now, file>>

\* PavedPath("test_data") / "file.txt": the handle is made without __init__.
LegacyDiv(new) ==
    /\ live = {}
    /\ live' = {new}
    /\ path' = [path EXCEPT ![new] = FilePath]
    /\ last' = Call("truediv", new)
    /\ UNCHANGED <<now, file, cache>>

\* write_text(data) / write_bytes(data): clear_cache, then the collaborator's write.
LegacyWriteRaw(h, mode, data, fault) ==
    /\ h \in live
    /\ cache' = LegacyCleared(cache, h)
    /\ IF ~file.dir
       THEN file' = file /\ last' = [Call(WriteOp(mode), h) EXCEPT !.err = "FileNotFoundError"]
       ELSE IF fault = "write"
       THEN /\ file' = [exists |-> TRUE, content |-> << >>, mtime |-> now, dir |-> TRUE]
            /\ last' = [Call(WriteOp(mode), h) EXCEPT !.err = "OSError"]
       ELSE /\ file' = [exists |-> TRUE, content |-> RawContent(mode, data),
                        mtime |-> now, dir |-> TRUE]
            /\ last' = Call(WriteOp(mode), h)
    /\ UNCHANGED <<now, live, path>>

\* write(content, write_through): mkdir of the parent, write_bytes or write_text by
\* the type of the content, and the slot filled when write_through is true.
LegacyWrite(h, mode, content, write_through, fault) ==
    /\ h \in live
    /\ IF fault = "mkdir"
       THEN /\ last' = [Call("write", h) EXCEPT !.bypass_cache = ~write_through,
                                               !.err = "PermissionError"]
            /\ UNCHANGED <<file, cache>>
       ELSE IF fault = "write"
       THEN /\ file' = [exists |-> TRUE, content |-> << >>, mtime |-> now, dir |-> TRUE]
            /\ cache' = LegacyCleared(cache, h)
            /\ last' = [Call("write", h) EXCEPT !.bypass_cache = ~write_through,
                                               !.err = "OSError"]
       ELSE /\ file' = [exists |-> TRUE, content |-> RawContent(mode, content),
                        mtime |-> now, dir |-> TRUE]
            /\ cache' = IF write_through
                        THEN SetSlot(LegacyCleared(cache, h), h, LegacySlot(mode),
                                     Some(content))
                        ELSE LegacyCleared(cache, h)
            /\ last' = [Call("write", h) EXCEPT !.bypass_cache = ~write_through]
    /\ UNCHANGED <<now, live, path>>

LegacyClearCache(h) ==
    /\ h \in live
    /\ cache' = LegacyCleared(cache, h)
    /\ last' = Call("clear_cache", h)
    /\ UNCHANGED <<now, file, live, path>>

\* delete(): the file is unlinked if it exists (the handle is on a file), and
\* nothing else is done.
LegacyDelete(h) ==
    /\ h \in live
    /\ file' = IF Exists(file, path[h]) THEN NoFile ELSE file
    /\ last' = Call("delete", h)
    /\ UNCHANGED <<now, live, path, cache>>

\* read_text_cached(reload) / read_bytes_cached(reload): the file is read when the
\* slot is falsy (None, or the empty string) or reload is true.
LegacyReadCached(h, mode, reload) ==
    /\ h \in live
    /\ LET op == IF mode = "text" THEN "read_text_cached" ELSE "read_bytes_cached"
           slot == SelfCache(h)[LegacySlot(mode)]
           r == RawRead(file, path[h], mode)
       IN IF slot = None \/ slot = Some(<< >>) \/ reload
          THEN IF r.err # "none"
               THEN /\ cache' = cache
                    /\ last' = [Call(op, h) EXCEPT !.reload = reload, !.err = r.err]
               ELSE /\ cache' = SetSlot(cache, h, LegacySlot(mode), r.val)
                    /\ last' = [Call(op, h) EXCEPT !.reload = reload, !.ret = r.val]
          ELSE /\ cache' = cache
               /\ last' = [Call(op, h) EXCEPT !.reload = reload, !.ret = slot]
    /\ UNCHANGED <<now, file, live, path>>

\* Faulty variant of CallIsUpToDate: the query records the modification time it
\* looked up as the handle's cache_timestamp.
CallIsUpToDateStoresMtime(h, timestamp) ==
    /\ h \in live
    /\ cache' = IF Exists(file, path[h]) /\ timestamp # None
                THEN Store(h, [cache[h] EXCEPT
                                 !.cache_timestamp = Some(AwareMtime(file, path[h]))])
                ELSE cache
    /\ last' = [Call("is_up_to_date", h)
                  EXCEPT !.timestamp = timestamp,
                         !.ret = Some(IsUpToDate(file, path[h], timestamp))]
    /\ UNCHANGED <<now, file, live, path>>

\* h.is_up_to_date(timestamp)
CallIsUpToDate(h, timestamp) ==
    /\ h \in live
    /\ last' = [Call("is_up_to_date", h)
                  EXCEPT !.timestamp = timestamp,
                         !.ret = Some(IsUpToDate(file, path[h], timestamp))]
    /\ UNCHANGED <<now, file, live, path, cache>>

\* h.is_outdated(timestamp)
CallIsOutdated(h, timestamp) ==
    /\ h \in live
    /\ last' = [Call("is_outdated", h)
                  EXCEPT !.timestamp = timestamp,
                         !.ret = Some(IsOutdated(file, path[h], timestamp))]
    /\ UNCHANGED <<now, file, live, path, cache>>

\* Another writer on the same file: Path(temp_file).write_bytes(data).
ExternalWrite(data) ==
    /\ file.dir
    /\ file' = [exists |-> TRUE, content |-> data, mtime |-> now, dir |-> TRUE]
    /\ last' = Call("external_write", "A")
    /\ UNCHANGED <<now, live, path, cache>>

\* Another actor deletes the file.
ExternalUnlink ==
    /\ file.exists
    /\ file' = NoFile
    /\ last' = Call("external_unlink", "A")
    /\ UNCHANGED <<now, live, path, cache>>

\* Time passes (the tests' sleep between a write and the next one).
Tick ==
    /\ now < MaxTime
    /\ now' = now + 1
    /\ last' = Call("tick", "A")
    /\ UNCHANGED <<file, live, path, cache>>

\* The calls made on the handles of hs.
Calls(hs) ==
    \/ \E h \in hs, reload \in BOOLEAN, check_file \in BOOLEAN, bypass_cache \in BOOLEAN :
          ReadText(h, reload, check_file, bypass_cache)
    \/ \E h \in hs, reload \in BOOLEAN, check_file \in BOOLEAN, bypass_cache \in BOOLEAN :
          ReadBytes(h, reload, check_file, bypass_cache)
    \/ \E h \in hs, data \in Texts, bypass_cache \in BOOLEAN, fault \in Faults :
          WriteText(h, data, bypass_cache, fault)
    \/ \E h \in hs, data \in Bytes, bypass_cache \in BOOLEAN, fault \in Faults :
          WriteBytes(h, data, bypass_cache, fault)
    \/ \E h \in hs : ClearCache(h)
    \/ \E h \in hs, missing_ok \in BOOLEAN : Unlink(h, missing_ok)

\* The reference timestamps a query is given: none, or a time of the clock.
Timestamps == {None} \cup {Some(t) : t \in 0..MaxTime}

\* The queries made on the handles of hs.
Queries(hs) ==
    \/ \E h \in hs, timestamp \in Timestamps : CallIsUpToDate(h, timestamp)
    \/ \E h \in hs, timestamp \in Timestamps : CallIsOutdated(h, timestamp)

\* One handle, and other actors that write and delete the file.
Next ==
    \/ Calls({"A"})
    \/ Queries({"A"})
    \/ \E data \in Bytes : ExternalWrite(data)
    \/ ExternalUnlink
    \/ Tick

Spec == Init /\ [][Next]_vars

\* One handle that is the only writer of the file.
NextSolo ==
    \/ Calls({"A"})
    \/ Tick

SpecSolo == Init /\ [][NextSolo]_vars

\* Two handles on the same file, the second built from the first.
NextTwo ==
    \/ \E src \in Handles, new \in Handles : Construct(src, new)
    \/ \E src \in Handles, new \in Handles, frag \in Fragments : Join(src, new, frag)
    \/ Calls(Handles)
    \/ Tick

SpecTwo == Init /\ [][NextTwo]_vars

\* The calls a JSONFile adds to those of a PavedPath.
JsonCalls(hs) ==
    \/ \E h \in hs, reload \in BOOLEAN, check_file \in BOOLEAN, bypass_cache \in BOOLEAN :
          ReadJson(h, reload, check_file, bypass_cache)
    \/ \E h \in hs, data \in JsonInputs, bypass_cache \in BOOLEAN, fault \in Faults :
          WriteJson(h, data, bypass_cache, fault)

\* One JSONFile handle, and another writer of JSON documents.
NextJson ==
    \/ JsonCalls({"A"})
    \/ Calls({"A"})
    \/ \E data \in JsonBytes : ExternalWrite(data)
    \/ ExternalUnlink
    \/ Tick

SpecJson == Init /\ [][NextJson]_vars

\* One JSONFile handle that is also handed strings to write.
NextJsonStr ==
    \/ JsonCalls({"A"})
    \/ \E s \in JsonStrings, fault \in Faults : WriteJson("A", JStr(s), FALSE, fault)
    \/ \E h \in {"A"} : ClearCache(h)
    \/ Tick

SpecJsonStr == Init /\ [][NextJsonStr]_vars

\* The calls a YAMLFile adds to those of a PavedPath.
YamlCalls(hs) ==
    \/ \E h \in hs, reload \in BOOLEAN, check_file \in BOOLEAN :
          SafeReadYaml(h, reload, check_file)
    \/ \E h \in hs, data \in YamlValues, encoding \in BOOLEAN, fault \in Faults :
          SafeWriteYaml(h, data, encoding, fault)

\* One YAMLFile handle that is the only writer of the file.
NextYaml ==
    \/ YamlCalls({"A"})
    \/ Calls({"A"})
    \/ Tick

SpecYaml == Init /\ [][NextYaml]_vars

\* A handle on the file and a handle on its directory; the directory is removed
\* through either, and made again by the next write to the file.
NextDir ==
    \/ \E new \in Handles : ConstructDir(new)
    \/ Calls({"A"})
    \/ \E h \in Handles : Rmdir(h)
    \/ \E h \in Handles, fault \in RmFaults : Rmtree(h, fault)
    \/ \E missing_ok \in BOOLEAN : Unlink("B", missing_ok)
    \/ Tick

SpecDir == Init /\ [][NextDir]_vars

\* A modification now gives the file a modification time it never had: the file
\* was never written, or was last modified at an earlier tick.
CanModify == ~file.exists \/ file.mtime < now

\* One JSONFile handle and another writer, on a file that is never deleted and
\* whose every modification has a strictly later modification time than the one
\* before (the tests sleep between two writes).
NextMono ==
    \/ JsonCalls({"A"}) /\ (last'.op = "write_json" => CanModify)
    \/ \E reload \in BOOLEAN, check_file \in BOOLEAN, bypass_cache \in BOOLEAN :
          ReadText("A", reload, check_file, bypass_cache)
    \/ \E reload \in BOOLEAN, check_file \in BOOLEAN, bypass_cache \in BOOLEAN :
          ReadBytes("A", reload, check_file, bypass_cache)
    \/ CanModify /\ \E data \in Texts, bypass_cache \in BOOLEAN, fault \in Faults :
                       WriteText("A", data, bypass_cache, fault)
    \/ CanModify /\ \E data \in Bytes, bypass_cache \in BOOLEAN, fault \in Faults :
                       WriteBytes("A", data, bypass_cache, fault)
    \/ ClearCache("A")
    \/ CanModify /\ \E data \in JsonBytes \cup Bytes : ExternalWrite(data)
    \/ Tick

SpecMono == Init /\ [][NextMono]_vars

\* One handle whose refreshing reads take two steps, and another writer that
\* can write between the two.
NextRace ==
    \/ \E mode \in Modes, reload \in BOOLEAN, check_file \in BOOLEAN :
          ReadContent("A", mode, reload, check_file)
    \/ ReadMtime("A")
    \/ ~InFlight /\ \E data \in Texts, bypass_cache \in BOOLEAN, fault \in Faults :
                       WriteText("A", data, bypass_cache, fault)
    \/ ~InFlight /\ ClearCache("A")
    \/ \E data \in Bytes : RacingWrite(data)
    \/ ~InFlight /\ Tick

SpecRace == Init /\ [][NextRace]_vars

\* A JSONFile handle A and a YAMLFile handle B, built from A, on the same file.
NextStructured ==
    \/ Construct("A", "B")
    \/ \E reload \in BOOLEAN, check_file \in BOOLEAN : ReadJson("A", reload, check_file, FALSE)
    \/ \E data \in JsonValues, fault \in Faults : WriteJson("A", data, FALSE, fault)
    \/ \E reload \in BOOLEAN, check_file \in BOOLEAN : SafeReadYaml("B", reload, check_file)
    \/ \E data \in YamlValues, encoding \in BOOLEAN, fault \in Faults :
          SafeWriteYaml("B", data, encoding, fault)
    \/ \E h \in Handles, data \in Texts, bypass_cache \in BOOLEAN, fault \in Faults :
          WriteText(h, data, bypass_cache, fault)
    \/ \E h \in Handles, data \in Bytes, bypass_cache \in BOOLEAN, fault \in Faults :
          WriteBytes(h, data, bypass_cache, fault)
    \/ \E h \in Handles : ClearCache(h)
    \/ \E h \in Handles, missing_ok \in BOOLEAN : Unlink(h, missing_ok)

SpecStructured == Init /\ [][NextStructured]_vars

\* Two handles on the same file, the second built from the first, that read and
\* write it, with sleeps between the calls.
NextPair ==
    \/ Construct("A", "B")
    \/ \E h \in Handles, mode \in Modes, reload \in BOOLEAN, check_file \in BOOLEAN :
          Read(h, mode, reload, check_file, FALSE)
    \/ \E h \in Handles, data \in Texts, bypass_cache \in BOOLEAN :
          WriteText(h, data, bypass_cache, "none")
    \/ \E h \in Handles, data \in Bytes, bypass_cache \in BOOLEAN :
          WriteBytes(h, data, bypass_cache, "none")
    \/ Tick

SpecPair == Init /\ [][NextPair]_vars

\* One handle of the earlier version that is the only writer of the file.
NextEarly ==
    \/ \E mode \in Modes, reload \in BOOLEAN, check_file \in BOOLEAN, skip_cache \in BOOLEAN :
          EarlyRead("A", mode, reload, check_file, skip_cache)
    \/ \E data \in Texts, write_through \in BOOLEAN, clear_cache \in BOOLEAN,
          fault \in Faults :
          EarlyWrite("A", "text", data, write_through, clear_cache, fault)
    \/ \E data \in Bytes, write_through \in BOOLEAN, clear_cache \in BOOLEAN,
          fault \in Faults :
          EarlyWrite("A", "bytes", data, write_through, clear_cache, fault)
    \/ Tick

SpecEarly == Init /\ [][NextEarly]_vars

\* The legacy class before a handle is built: the class's cache object is as
\* the class statement made it.
InitLegacy ==
    /\ now = 0
    /\ file = NoFile
    /\ live = {}
    /\ path = [h \in Handles |-> << >>]
    /\ cache = [instance |-> [h \in Handles |-> None], class |-> CobblestoneCache]
    /\ last = NoCall

\* One handle of the legacy class, built directly or by a join, that is the only
\* user of the file.
NextLegacy ==
    \/ LegacyNew("A")
    \/ LegacyDiv("A")
    \/ \E mode \in Modes, write_through \in BOOLEAN, fault \in Faults :
          \E content \in (IF mode = "text" THEN Texts ELSE Bytes) : LegacyWrite("A", mode, content, write_through, fault)
    \/ \E mode \in Modes, fault \in {"none", "write"} :
          \E data \in (IF mode = "text" THEN Texts ELSE Bytes) : LegacyWriteRaw("A", mode, data, fault)
    \/ LegacyClearCache("A")
    \/ LegacyDelete("A")
    \/ \E mode \in Modes, reload \in BOOLEAN : LegacyReadCached("A", mode, reload)
    \/ Tick

SpecLegacy == InitLegacy /\ [][NextLegacy]_vars

\* No handle yet: the state before the first PavedPath(...) of a test.
InitInputs ==
    /\ now = 0
    /\ file = NoFile
    /\ live = {}
    /\ path = [h \in Handles |-> << >>]
    /\ cache = [h \in Handles |-> FreshCache]
    /\ last = NoCall

\* Handles built from the inputs: from one argument, from twice the same
\* argument, and by joining a handle with an argument.
NextInputs ==
    \/ \E new \in Handles, x \in PathInputs : PavedPathOf(new, <<x>>)
    \/ \E new \in Handles, x \in PathInputs : PavedPathOf(new, <<x, x>>)
    \/ \E src \in Handles, new \in Handles, key \in PathInputs : Div(src, new, key)

SpecInputs == InitInputs /\ [][NextInputs]_vars

TypeOK ==
    /\ now \in 0..MaxTime
    /\ file.exists \in BOOLEAN
    /\ file.dir \in BOOLEAN
    /\ file.exists => file.dir
    /\ file.mtime \in 0..MaxTime
    /\ live \subseteq Handles

(* ------------------------------ claims -------------------------------- *)

Data(mode) == IF mode = "text" THEN Texts ELSE Bytes

\* What a raw read of the file in `mode` gives now.
OnDisk(mode) == RawRead(file, FilePath, mode).val

Populated(c) == c.cached_text # None \/ c.cached_bytes # None

\* The step is the call of read_text / read_bytes with these flags on handle h.
ReadStep(h, mode, reload, check_file, bypass_cache) ==
    /\ last'.op = ReadOp(mode) /\ last'.h = h
    /\ Read(h, mode, reload, check_file, bypass_cache)

\* The step is the call of write_text / write_bytes with this data on handle h.
WriteStep(h, mode, data, bypass_cache, fault) ==
    /\ last'.op = WriteOp(mode) /\ last'.h = h
    /\ Write(h, mode, data, bypass_cache, fault)

\* C1: a read with reload, check_file and bypass_cache all false on a handle whose
\* slot for the mode is populated returns exactly the cached value, makes no call
\* to the filesystem and changes no cache field, whatever the file on disk is now.
CacheHitReturnsCached ==
    [][\A h \in Handles, mode \in Modes :
         (cache[h][Slot(mode)] # None /\ ReadStep(h, mode, FALSE, FALSE, FALSE))
         => /\ last'.err = "none"
            /\ last'.ret = cache[h][Slot(mode)]
            /\ cache' = cache
            /\ ReadCached(cache[h], file, path[h], mode, FALSE, FALSE, FALSE).io = {}]_vars

\* A read without flags has returned the cached text "a" although the file was
\* written later than the cache was filled and now holds something else.
CacheHitWitness ==
    /\ last.op = "read_text" /\ last.h = "A" /\ last.err = "none"
    /\ ~last.reload /\ ~last.check_file /\ ~last.bypass_cache
    /\ last.ret = Some(<<"a">>)
    /\ cache["A"].cached_text = Some(<<"a">>)
    /\ file.exists /\ OnDisk("text") # Some(<<"a">>)
    /\ cache["A"].cache_timestamp # None
    /\ file.mtime > cache["A"].cache_timestamp[1]

\* C2: after a write that returned, made with bypass_cache false, the file read
\* back in the same mode holds the data, the slot of the mode holds exactly the
\* data, the slot of the other mode is empty and cache_timestamp is the file's
\* modification time, whatever the cache held before.
WriteFillsCache ==
    [][\A h \in Handles, mode \in Modes, fault \in Faults : \A data \in Data(mode) :
         (WriteStep(h, mode, data, FALSE, fault) /\ last'.err = "none")
         => /\ RawRead(file', path[h], mode) = [err |-> "none", val |-> Some(data)]
            /\ cache'[h][Slot(mode)] = Some(data)
            /\ cache'[h][Other(mode)] = None
            /\ cache'[h].cache_timestamp = Some(file'.mtime)]_vars

\* write_text("a") has returned at a later tick than the file was first written:
\* the text slot holds "a", the bytes slot is empty, the timestamp is the mtime.
WriteFillsCacheWitness ==
    /\ last.op = "write_text" /\ last.h = "A" /\ last.err = "none" /\ ~last.bypass_cache
    /\ file.exists /\ file.content = <<97>> /\ file.mtime = now /\ now > 0
    /\ cache["A"].cached_text = Some(<<"a">>)
    /\ cache["A"].cached_bytes = None
    /\ cache["A"].cache_timestamp = Some(file.mtime)

\* C3: a read with reload true (and bypass_cache false) of an existing file returns
\* what is on disk now, stores it in the slot of the mode and sets cache_timestamp
\* to the file's modification time, whatever the cache held before.
ReloadReadsDisk ==
    [][\A h \in Handles, mode \in Modes, check_file \in BOOLEAN :
         (Exists(file, path[h]) /\ ReadStep(h, mode, TRUE, check_file, FALSE))
         => /\ last'.err = "none"
            /\ last'.ret = OnDisk(mode)
            /\ cache'[h][Slot(mode)] = OnDisk(mode)
            /\ cache'[h].cache_timestamp = Some(file.mtime)]_vars

\* read_text(reload=True) has returned the empty text now on disk on a handle whose
\* bytes slot still holds the "a" the file held before it was modified.
ReloadWitness ==
    /\ last.op = "read_text" /\ last.h = "A" /\ last.err = "none"
    /\ last.reload /\ ~last.bypass_cache
    /\ file.exists /\ file.content = << >> /\ file.mtime > 0
    /\ last.ret = Some(<< >>)
    /\ cache["A"].cached_text = Some(<< >>)
    /\ cache["A"].cached_bytes = Some(<<97>>)
    /\ cache["A"].cache_timestamp = Some(file.mtime)

\* The file's modification time is strictly newer than the cache's timestamp.
Newer(c) == c.cache_timestamp # None /\ file.mtime > c.cache_timestamp[1]

\* C4: a read with check_file true (reload and bypass_cache false) on a handle whose
\* slot for the mode is populated and whose file exists reads the disk again and
\* returns its content if the file's modification time is strictly newer than
\* cache_timestamp; if it is not, it returns the cached value, does not read the
\* file and leaves every cache field unchanged.
CheckFileRereadsIffNewer ==
    [][\A h \in Handles, mode \in Modes :
         (cache[h][Slot(mode)] # None /\ Exists(file, path[h])
            /\ ReadStep(h, mode, FALSE, TRUE, FALSE))
         => LET io == ReadCached(cache[h], file, path[h], mode, FALSE, TRUE, FALSE).io IN
            IF Newer(cache[h])
            THEN /\ last'.err = "none"
                 /\ last'.ret = OnDisk(mode)
                 /\ cache'[h][Slot(mode)] = OnDisk(mode)
                 /\ cache'[h].cache_timestamp = Some(file.mtime)
                 /\ "read" \in io
            ELSE /\ last'.err = "none"
                 /\ last'.ret = cache[h][Slot(mode)]
                 /\ cache' = cache
                 /\ "read" \notin io]_vars

\* read_text(check_file=True) has returned the cached "a" although the file holds
\* something else: the file was modified within the tick the cache was taken at.
CheckFileWitness ==
    /\ last.op = "read_text" /\ last.h = "A" /\ last.err = "none"
    /\ last.check_file /\ ~last.reload /\ ~last.bypass_cache
    /\ last.ret = Some(<<"a">>)
    /\ cache["A"].cached_text = Some(<<"a">>)
    /\ file.exists /\ OnDisk("text") # Some(<<"a">>)
    /\ cache["A"].cache_timestamp = Some(file.mtime)

\* C5: while handle A is the only writer of the file, each populated slot of A
\* holds what is on disk.
CacheMatchesDisk ==
    \A mode \in Modes :
       cache["A"][Slot(mode)] # None
       => file.exists /\ cache["A"][Slot(mode)] = OnDisk(mode)

\* After write_text("a") and read_bytes() both slots are populated and match.
CacheMatchesDiskWitness ==
    /\ last.op = "read_bytes" /\ last.h = "A" /\ last.err = "none"
    /\ file.exists /\ file.content = <<97>>
    /\ cache["A"].cached_text = Some(<<"a">>)
    /\ cache["A"].cached_bytes = Some(<<97>>)

\* C6: after a write that raised, with any bypass_cache, the three cache fields of
\* the handle are empty.
FailedWriteEmptiesCache ==
    (last.op \in {"write_text", "write_bytes"} /\ last.err # "none")
    => cache[last.h] = FreshCache

\* A write has raised after truncating the file at a later tick than the file was
\* first written (so the handle may have cached it): the cache is empty.
FailedWriteWitness ==
    /\ last.op = "write_text" /\ last.h = "A" /\ last.err = "OSError"
    /\ file.exists /\ file.content = << >> /\ file.mtime > 0
    /\ cache["A"] = FreshCache

\* C7: cache_timestamp is set if and only if one of the two slots is populated.
TimestampIffPopulated ==
    \A h \in Handles : (cache[h].cache_timestamp # None) <=> Populated(cache[h])

\* A read that raised FileNotFoundError has left a populated cache as it was.
TimestampWitness ==
    /\ last.op = "read_text" /\ last.err = "FileNotFoundError"
    /\ Populated(cache[last.h])
    /\ cache[last.h].cache_timestamp # None

\* The other handle has just written the file successfully.
OtherWrote(h) ==
    /\ last.op \in {"write_text", "write_bytes"}
    /\ last.h # h /\ last.err = "none"

\* C8: when a handle holds a cached value and the other handle has then written
\* the file, the first handle's read without flags returns its cached value, its
\* read with reload returns what the other handle wrote, and its read with
\* check_file returns what the other handle wrote provided the write gave the file
\* a modification time strictly newer than the first handle's cache_timestamp.
StaleUntilReloadOrCheck ==
    [][\A h \in Handles, mode \in Modes :
         (OtherWrote(h) /\ cache[h][Slot(mode)] # None)
         => /\ ReadStep(h, mode, FALSE, FALSE, FALSE)
                 => last'.ret = cache[h][Slot(mode)]
            /\ \A check_file \in BOOLEAN :
                 ReadStep(h, mode, TRUE, check_file, FALSE)
                 => last'.ret = OnDisk(mode)
            /\ (Newer(cache[h]) /\ ReadStep(h, mode, FALSE, TRUE, FALSE))
                 => last'.ret = OnDisk(mode)]_vars

\* Handle B has written the empty text at a later tick; handle A, which had cached
\* "a", has then read without flags and got "a".
StaleUntilReloadWitness ==
    /\ last.op = "read_text" /\ last.h = "A" /\ last.err = "none"
    /\ ~last.reload /\ ~last.check_file /\ ~last.bypass_cache
    /\ last.ret = Some(<<"a">>)
    /\ cache["A"].cached_text = Some(<<"a">>)
    /\ "B" \in live /\ path["B"] = path["A"]
    /\ cache["B"].cached_text = Some(<< >>)
    /\ cache["B"].cache_timestamp = Some(file.mtime)
    /\ file.exists /\ file.content = << >>
    /\ Newer(cache["A"])

\* C9: a step changes the cache fields of no handle but the one the call is made
\* on, also when both handles are on the same path and one was built from the
\* other.
HandlesAreIsolated ==
    [][\A g \in Handles : cache'[g] # cache[g] => last'.h = g]_vars

\* Handle B, built from A, has written and cached the empty text while A keeps
\* the "a" and the timestamp it cached before.
IsolationWitness ==
    /\ live = {"A", "B"} /\ path["B"] = path["A"]
    /\ last.op = "write_text" /\ last.h = "B" /\ last.err = "none"
    /\ cache["B"].cached_text = Some(<< >>)
    /\ cache["B"].cache_timestamp = Some(file.mtime)
    /\ cache["A"].cached_text = Some(<<"a">>)
    /\ Newer(cache["A"])

BypassWriteEmptiesCache ==
    [][\A h \in Handles, mode \in Modes, fault \in Faults : \A data \in Data(mode) :
         (WriteStep(h, mode, data, TRUE, fault) /\ last'.err = "none")
         => /\ RawRead(file', path[h], mode) = [err |-> "none", val |-> Some(data)]
            /\ cache'[h] = FreshCache]_vars

\* write_text("a", bypass_cache=True) has returned at a later tick than the file was
\* first written: the file holds "a" and the three cache fields are empty.
BypassWriteWitness ==
    /\ last.op = "write_text" /\ last.h = "A" /\ last.err = "none" /\ last.bypass_cache
    /\ file.exists /\ file.content = <<97>> /\ file.mtime = now /\ now > 0
    /\ cache["A"] = FreshCache

\* The step is the call of clear_cache on handle h.
ClearStep(h) == last'.op = "clear_cache" /\ last'.h = h /\ ClearCache(h)

\* The step is the call of read_json with these flags, and no other keyword, on
\* handle h.
ReadJsonStep(h, reload, check_file) ==
    /\ last'.op = "read_json" /\ last'.h = h /\ ~last'.bypass_cache
    /\ ReadJson(h, reload, check_file, FALSE)

\* What json.loads gives of the text now on disk.
ParsedOnDisk == JsonLoads(OnDisk("text")[1])

\* C12: clear_cache leaves cached_text, cached_bytes, cache_timestamp and cached_json
\* of the handle empty whatever they held; and a read without bypass_cache, in any
\* mode and with any flags, on a handle whose fields are all empty (as clear_cache
\* leaves them) reads the disk: read_text / read_bytes return what the file holds
\* now, read_json returns its parse, and each raises FileNotFoundError if the file
\* does not exist.
ClearCacheForcesDiskRead ==
    [][\A h \in Handles :
         /\ ClearStep(h) => cache'[h] = FreshCache
         /\ cache[h] = FreshCache
            => /\ \A mode \in Modes, reload \in BOOLEAN, check_file \in BOOLEAN :
                    ReadStep(h, mode, reload, check_file, FALSE)
                    => /\ "read" \in ReadCached(cache[h], file, path[h], mode,
                                                 reload, check_file, FALSE).io
                       /\ IF Exists(file, path[h])
                          THEN last'.err = "none" /\ last'.ret = OnDisk(mode)
                          ELSE last'.err = "FileNotFoundError"
               /\ \A reload \in BOOLEAN, check_file \in BOOLEAN :
                    ReadJsonStep(h, reload, check_file)
                    => /\ "read" \in ReadJsonCached(cache[h], file, path[h],
                                                     reload, check_file, FALSE).io
                       /\ IF Exists(file, path[h])
                          THEN /\ last'.err = ParsedOnDisk.err
                               /\ last'.ret = ParsedOnDisk.val
                          ELSE last'.err = "FileNotFoundError"]_vars

\* clear_cache has been called on a handle of a file that was written at a later
\* tick than it was created and holds a JSON document: the four fields are empty.
ClearCacheWitness ==
    /\ last.op = "clear_cache" /\ last.h = "A"
    /\ file.exists /\ file.content = <<91, 93>> /\ file.mtime > 0
    /\ cache["A"] = FreshCache

\* C13: a read that has to go to disk (bypass_cache true, or reload true, or the
\* slot of the mode empty) while the file does not exist raises FileNotFoundError
\* and leaves every cache field as it was.
MissingFileReadRaises ==
    [][\A h \in Handles, mode \in Modes :
         \A reload \in BOOLEAN, check_file \in BOOLEAN, bypass_cache \in BOOLEAN :
            (/\ ~Exists(file, path[h])
             /\ bypass_cache \/ reload \/ cache[h][Slot(mode)] = None
             /\ ReadStep(h, mode, reload, check_file, bypass_cache))
            => /\ last'.err = "FileNotFoundError"
               /\ cache' = cache]_vars

\* read_bytes(reload=True) has raised FileNotFoundError on a handle that holds the
\* bytes and the timestamp of the file that was deleted since.
MissingFileWitness ==
    /\ last.op = "read_bytes" /\ last.h = "A" /\ last.err = "FileNotFoundError"
    /\ last.reload /\ ~last.bypass_cache
    /\ ~file.exists
    /\ cache["A"].cached_bytes = Some(<<97>>)
    /\ cache["A"].cache_timestamp # None

\* C14: after an unlink that returned, the file does not exist and cached_text,
\* cached_bytes, cache_timestamp and cached_json of the handle are all empty.
UnlinkEmptiesCache ==
    (last.op = "unlink" /\ last.err = "none")
    => ~file.exists /\ cache[last.h] = FreshCache

\* unlink() has returned at a later tick than the file was created: the file is
\* gone and the four fields are empty.
UnlinkWitness ==
    /\ last.op = "unlink" /\ last.h = "A" /\ last.err = "none"
    /\ now > 0 /\ ~file.exists
    /\ cache["A"] = FreshCache

\* The step builds handle new from handle src, by construction or by a join.
BuildStep(src, new) ==
    \/ last'.op = "construct" /\ last'.h = new /\ Construct(src, new)
    \/ last'.op = "join" /\ last'.h = new
          /\ \E frag \in Fragments : Join(src, new, frag)

\* C15: a handle built from an existing handle, by PavedPath(src) or by src / frag,
\* has cached_text, cached_bytes and cache_timestamp empty whatever the cache of the
\* source handle holds, and the cache of the source handle is unchanged.
BuiltHandleIsFresh ==
    [][\A src \in Handles, new \in Handles :
         BuildStep(src, new)
         => /\ cache'[new] = FreshCache
            /\ cache'[src] = cache[src]]_vars

\* Handle B has been joined from A while A holds the text "a" and its timestamp.
BuiltHandleWitness ==
    /\ last.op = "join" /\ last.h = "B" /\ live = {"A", "B"}
    /\ path["B"] = path["A"]
    /\ cache["B"] = FreshCache
    /\ cache["A"].cached_text = Some(<<"a">>)
    /\ cache["A"].cache_timestamp # None

\* The step is the call of is_up_to_date / is_outdated with this reference on h.
UpToDateStep(h, timestamp) ==
    /\ last'.op = "is_up_to_date" /\ last'.h = h /\ last'.timestamp = timestamp
    /\ CallIsUpToDate(h, timestamp)

OutdatedStep(h, timestamp) ==
    /\ last'.op = "is_outdated" /\ last'.h = h /\ last'.timestamp = timestamp
    /\ CallIsOutdated(h, timestamp)

\* C16: is_up_to_date(reference) is false if the file does not exist, true if it
\* exists and no reference is given, and otherwise true exactly if the file's
\* modification time is strictly later than the reference (equal times give
\* false); is_outdated(reference) is its negation in every disk state.
UpToDateIsStrictlyNewer ==
    [][\A h \in Handles, timestamp \in Timestamps :
         LET newer == /\ file.exists
                      /\ timestamp = None \/ file.mtime > timestamp[1]
         IN /\ UpToDateStep(h, timestamp) => last'.ret = Some(newer)
            /\ OutdatedStep(h, timestamp) => last'.ret = Some(~newer)]_vars

\* is_outdated(t) has returned true for a file whose modification time is t, a
\* time later than the one the file was created at.
UpToDateWitness ==
    /\ last.op = "is_outdated" /\ last.h = "A"
    /\ file.exists /\ file.mtime > 0
    /\ last.timestamp = Some(file.mtime)
    /\ last.ret = Some(TRUE)

\* Handle h holds a text and the timestamp t0 it was cached at, and the file has
\* since been given a strictly later modification time (by another writer: the
\* handle's own writes take the new time as timestamp).
Stale(h) == cache[h].cached_text # None /\ Newer(cache[h])

\* C17 as stated: after write_text(x) through h left cache_timestamp t0 and the file
\* was then modified by another writer at a strictly later time, h.is_outdated(t0)
\* is true.
StaleHandleIsOutdated ==
    [][\A h \in Handles :
         (Stale(h) /\ OutdatedStep(h, cache[h].cache_timestamp))
         => last'.ret = Some(TRUE)]_vars

\* C17: after write_text(x) through h left cache_timestamp t0 and the file was then
\* modified by another writer at a strictly later time, h.is_up_to_date(t0) is true
\* and h.is_outdated(t0) is false.
StaleHandleIsUpToDate ==
    [][\A h \in Handles :
         Stale(h)
         => /\ UpToDateStep(h, cache[h].cache_timestamp) => last'.ret = Some(TRUE)
            /\ OutdatedStep(h, cache[h].cache_timestamp) => last'.ret = Some(FALSE)]_vars

\* is_outdated(t0) has returned false on a handle that holds the text "a" cached at
\* t0 while the file, modified later, holds something else.
StaleHandleWitness ==
    /\ last.op = "is_outdated" /\ last.h = "A"
    /\ Stale("A") /\ cache["A"].cached_text = Some(<<"a">>)
    /\ file.exists /\ file.content # <<97>>
    /\ last.timestamp = cache["A"].cache_timestamp
    /\ last.ret = Some(FALSE)

\* C18: is_up_to_date and is_outdated, for any disk state, reference and cache
\* state, change no cache field and do not modify the file.
QueriesArePure ==
    [][\A h \in Handles, timestamp \in Timestamps :
         (UpToDateStep(h, timestamp) \/ OutdatedStep(h, timestamp))
         => cache' = cache /\ file' = file]_vars

\* is_up_to_date(t) has returned true on a handle whose cache_timestamp is t and
\* still is, although the file is later than t.
PureQueryWitness ==
    /\ last.op = "is_up_to_date" /\ last.h = "A"
    /\ Populated(cache["A"]) /\ Newer(cache["A"])
    /\ last.timestamp = cache["A"].cache_timestamp
    /\ last.ret = Some(TRUE)

\* C19: right after a read that refreshed the cache (reload true, or the slot of the
\* mode empty), with the file as that read found it, a read with check_file true on
\* the same handle, in any mode whose slot is populated, finds the file not newer
\* than the cache: it does not read the file, returns the cached value and leaves
\* cache_timestamp and the slots as they are.
CheckAfterRefreshIsHit ==
    [][\A h \in Handles, mode \in Modes, reload \in BOOLEAN, check_file \in BOOLEAN :
         (/\ reload \/ cache[h][Slot(mode)] = None
          /\ ReadStep(h, mode, reload, check_file, FALSE)
          /\ last'.err = "none")
         => \A next \in Modes :
               cache'[h][Slot(next)] # None
               => LET r == ReadCached(cache'[h], file', path'[h], next,
                                      FALSE, TRUE, FALSE)
                  IN /\ "read" \notin r.io
                     /\ r.err = "none"
                     /\ r.ret = cache'[h][Slot(next)]
                     /\ r.cache = cache'[h]]_vars

\* read_text(check_file=True) has returned the cached text, which is what the file
\* holds, on a handle that read both slots from a file modified later than it was
\* created, and whose timestamp is the file's modification time.
CheckAfterRefreshWitness ==
    /\ last.op = "read_text" /\ last.h = "A" /\ last.err = "none"
    /\ last.check_file /\ ~last.reload /\ ~last.bypass_cache
    /\ file.exists /\ file.mtime > 0
    /\ cache["A"].cached_text = OnDisk("text")
    /\ cache["A"].cached_bytes = OnDisk("bytes")
    /\ last.ret = cache["A"].cached_text
    /\ cache["A"].cache_timestamp = Some(file.mtime)

\* The step is the call of write_json with this data, and no keyword, on handle h.
WriteJsonStep(h, data, fault) ==
    /\ last'.op = "write_json" /\ last'.h = h /\ ~last'.bypass_cache
    /\ WriteJson(h, data, FALSE, fault)

\* C20: after a write_json(data) that returned, for a list or a dict, cached_json
\* holds the data, cached_text holds the serialized text that was written,
\* cached_bytes is empty and cache_timestamp is set.
WriteJsonCachesValue ==
    [][\A h \in Handles, data \in JsonValues, fault \in Faults :
         (WriteJsonStep(h, data, fault) /\ last'.err = "none")
         => /\ cache'[h].cached_json = Some(data)
            /\ cache'[h].cached_text = Some(JsonDumps(data))
            /\ cache'[h].cached_bytes = None
            /\ cache'[h].cache_timestamp # None]_vars

\* Serializing and then parsing the data gives back a value equal to the data.
RoundTrips(data) == JsonLoads(JsonDumps(data)).val = Some(data)

\* C21: a write_json of data that does not round-trip raises a serialization
\* mismatch error before any disk I/O: no file is created and an existing file is
\* not changed.
RoundTripGuard ==
    [][\A h \in Handles, data \in JsonInputs, fault \in Faults :
         (~RoundTrips(data) /\ WriteJsonStep(h, data, fault))
         => /\ last'.err = "SerializationMismatch"
            /\ file' = file]_vars

\* C22: after a write_json(d1) that returned, read_json() on the handle returns d1;
\* once the handle holds a parsed value, read_json() without flags returns that
\* value whatever another writer has put in the file since; and
\* read_json(reload=True) returns the parse of what the file holds now.
JsonScenario ==
    [][\A h \in Handles :
         /\ \A d1 \in JsonValues, fault \in Faults :
               (WriteJsonStep(h, d1, fault) /\ last'.err = "none")
               => LET r == ReadJsonCached(cache'[h], file', path'[h], FALSE, FALSE, FALSE)
                  IN r.err = "none" /\ r.ret = Some(d1)
         /\ (cache[h].cached_json # None /\ ReadJsonStep(h, FALSE, FALSE))
               => last'.err = "none" /\ last'.ret = cache[h].cached_json
         /\ \A check_file \in BOOLEAN :
               (Exists(file, path[h]) /\ ReadJsonStep(h, TRUE, check_file))
               => last'.err = ParsedOnDisk.err /\ last'.ret = ParsedOnDisk.val]_vars

\* read_json() has returned the dict the handle wrote and parsed at an earlier tick
\* although another writer has since put a list in the file.
JsonScenarioWitness ==
    /\ last.op = "read_json" /\ last.h = "A" /\ last.err = "none"
    /\ ~last.reload /\ ~last.check_file /\ ~last.bypass_cache
    /\ last.ret = Some(JDict)
    /\ cache["A"].cached_json = Some(JDict)
    /\ cache["A"].cached_text = Some(JsonDumps(JDict))
    /\ file.exists /\ file.content = Utf8Encode(JsonDumps(JList))
    /\ Newer(cache["A"])

\* C23: whenever cached_json of a handle is populated, cached_text is populated and
\* cached_json is the parse of cached_text.
ParsedMatchesText ==
    \A h \in Handles :
       cache[h].cached_json # None
       => /\ cache[h].cached_text # None
          /\ cache[h].cached_json = JsonLoads(cache[h].cached_text[1]).val

\* C24: a read_json called with cached_json empty, or with reload true, or with
\* check_file true and the file newer than cache_timestamp, reads the file again
\* at the text layer: it returns the parse of what the file holds now and
\* cached_text holds that content afterwards, even if cached_text was populated.
ParseAlwaysRereads ==
    [][\A h \in Handles, reload \in BOOLEAN, check_file \in BOOLEAN :
         (/\ Exists(file, path[h])
          /\ cache[h].cached_json = None \/ reload \/ (check_file /\ Newer(cache[h]))
          /\ ReadJsonStep(h, reload, check_file))
         => /\ last'.err = ParsedOnDisk.err
            /\ last'.ret = ParsedOnDisk.val
            /\ cache'[h].cached_text = OnDisk("text")]_vars

\* C25: write_json(s) of a string s that holds a JSON document writes that
\* document: afterwards cached_text is s, cached_json is the parse of s and a
\* read_json returns the parse of s; a string that holds no JSON document is
\* rejected.
WriteJsonFromString ==
    [][\A h \in Handles, s \in JsonStrings :
         WriteJsonStep(h, JStr(s), "none")
         => IF JsonLoads(s).err = "none"
            THEN /\ last'.err = "none"
                 /\ cache'[h].cached_text = Some(s)
                 /\ cache'[h].cached_json = JsonLoads(s).val
                 /\ ReadJsonCached(cache'[h], file', path'[h], FALSE, FALSE, FALSE).ret
                       = JsonLoads(s).val
            ELSE last'.err # "none" /\ file' = file]_vars

\* C26: write_json(data, bypass_cache=True) writes the serialized data to the file
\* and leaves cached_text, cached_bytes, cached_json and cache_timestamp empty,
\* whether the cache was empty or populated before.
WriteJsonBypass ==
    [][\A h \in Handles, data \in JsonValues :
         (/\ last'.op = "write_json" /\ last'.h = h /\ last'.bypass_cache
          /\ WriteJson(h, data, TRUE, "none"))
         => /\ last'.err = "none"
            /\ RawRead(file', path[h], "text").val = Some(JsonDumps(data))
            /\ cache'[h] = FreshCache]_vars

\* C27: read_json(bypass_cache=True) of a file that holds a JSON document returns
\* the parse of what the file holds now and leaves cached_text, cached_bytes,
\* cached_json and cache_timestamp as they were.
ReadJsonBypass ==
    [][\A h \in Handles, reload \in BOOLEAN, check_file \in BOOLEAN :
         (/\ Exists(file, path[h]) /\ ParsedOnDisk.err = "none"
          /\ last'.op = "read_json" /\ last'.h = h /\ last'.bypass_cache
          /\ ReadJson(h, reload, check_file, TRUE))
         => /\ last'.err = "none"
            /\ last'.ret = ParsedOnDisk.val
            /\ cache' = cache]_vars

\* The step is the call of safe_write_yaml with this data on handle h.
WriteYamlStep(h, data, encoding, fault) ==
    /\ last'.op = "safe_write_yaml" /\ last'.h = h
    /\ SafeWriteYaml(h, data, encoding, fault)

\* C28: after a safe_write_yaml(data) that returned, made without an encoding
\* option, whatever the cache held before, the file read back as text and
\* cached_text both are the safe-dumped text of the data, cached_bytes and
\* cached_yaml are empty and cache_timestamp is the file's modification time.
WriteYamlFillsText ==
    [][\A h \in Handles, data \in YamlValues, fault \in Faults :
         (WriteYamlStep(h, data, FALSE, fault) /\ last'.err = "none")
         => /\ RawRead(file', path[h], "text").val = Some(YamlDump(data))
            /\ cache'[h].cached_text = Some(YamlDump(data))
            /\ cache'[h].cached_bytes = None
            /\ cache'[h].cached_yaml = None
            /\ cache'[h].cache_timestamp = Some(file'.mtime)]_vars

\* safe_write_yaml({}) has returned at a later tick than the file was first
\* written: file and text slot hold "{}" and a line break, cached_yaml is empty.
WriteYamlWitness ==
    /\ last.op = "safe_write_yaml" /\ last.h = "A" /\ last.err = "none"
    /\ file.exists /\ file.content = <<123, 125, 10>> /\ file.mtime = now /\ now > 0
    /\ cache["A"].cached_text = Some(<<"{", "}", "\n">>)
    /\ cache["A"].cached_bytes = None
    /\ cache["A"].cached_yaml = None
    /\ cache["A"].cache_timestamp = Some(file.mtime)

\* The step is the call of rmdir or of rmtree on handle h.
RemoveDirStep(h) ==
    /\ last'.op \in {"rmdir", "rmtree"} /\ last'.h = h
    /\ (Rmdir(h) \/ \E fault \in RmFaults : Rmtree(h, fault))

\* C29: a call of rmdir() or rmtree() on a handle, whether it returns or raises,
\* leaves cached_text, cached_bytes and cache_timestamp of that handle and of
\* every other handle as they were, the handle of a file in the removed
\* directory included.
RemoveDirKeepsCaches ==
    [][\A h \in Handles :
         RemoveDirStep(h)
         => \A g \in Handles :
              /\ cache'[g].cached_text = cache[g].cached_text
              /\ cache'[g].cached_bytes = cache[g].cached_bytes
              /\ cache'[g].cache_timestamp = cache[g].cache_timestamp]_vars

\* rmtree() on the directory handle has removed the directory and the file in
\* it, while the handle of the file still holds the text it wrote.
RemoveDirWitness ==
    /\ last.op = "rmtree" /\ last.h = "B" /\ last.err = "none"
    /\ path["B"] = RootDir /\ path["A"] = FilePath
    /\ ~file.dir /\ ~file.exists
    /\ cache["A"].cached_text = Some(<<"a">>)
    /\ cache["A"].cache_timestamp # None

\* C30: read_text() without modifiers on a handle whose cached_text is empty and
\* whose cached_bytes is populated, the file existing, reads the disk, returns
\* what the file holds now, stores it in cached_text, sets cache_timestamp to the
\* file's modification time and leaves cached_bytes as it was; and the same for
\* read_bytes() with the slots exchanged.
CrossModeReadRefreshes ==
    [][\A h \in Handles, mode \in Modes :
         (/\ cache[h][Slot(mode)] = None
          /\ cache[h][Other(mode)] # None
          /\ Exists(file, path[h])
          /\ ReadStep(h, mode, FALSE, FALSE, FALSE))
         => /\ "read" \in ReadCached(cache[h], file, path[h], mode, FALSE, FALSE, FALSE).io
            /\ last'.err = "none"
            /\ last'.ret = OnDisk(mode)
            /\ cache'[h][Slot(mode)] = OnDisk(mode)
            /\ cache'[h].cache_timestamp = Some(file.mtime)
            /\ cache'[h][Other(mode)] = cache[h][Other(mode)]]_vars

\* read_text() has returned the empty text the file holds now, on a handle whose
\* cached_bytes still is the a it wrote before the file was overwritten at a
\* later tick: the text slot is filled and the timestamp is the file's.
CrossModeReadWitness ==
    /\ last.op = "read_text" /\ last.h = "A" /\ last.err = "none"
    /\ ~last.reload /\ ~last.check_file /\ ~last.bypass_cache
    /\ last.ret = Some(<< >>)
    /\ file.exists /\ file.content = << >> /\ file.mtime > 0
    /\ cache["A"].cached_text = Some(<< >>)
    /\ cache["A"].cached_bytes = Some(<<97>>)
    /\ cache["A"].cache_timestamp = Some(file.mtime)

\* The normalized string form of a path-like input: a datetime as
\* YYYY-MM-DD, HH-MM-SS.ffffff, a number or a date as its string form, a string
\* as it is, a path value as its own string.
Normalized(x) ==
    CASE x.t = "datetime" ->
           ZeroPad(NatStr(x.year), 4) \o <<"-">> \o ZeroPad(NatStr(x.month), 2)
               \o <<"-">> \o ZeroPad(NatStr(x.day), 2) \o <<",", " ">>
               \o ZeroPad(NatStr(x.hour), 2) \o <<"-">> \o ZeroPad(NatStr(x.minute), 2)
               \o <<"-">> \o ZeroPad(NatStr(x.second), 2) \o <<".">>
               \o ZeroPad(NatStr(x.microsecond), 6)
      [] x.t \in {"int", "float", "date", "str"} -> Str(x)
      [] OTHER -> Fspath(x.parts)

\* The step builds handle new by PavedPath(*args).
PavedPathStep(new, args) == last'.op = "PavedPath" /\ last'.h = new /\ PavedPathOf(new, args)

\* The step builds handle new by src / key.
DivStep(src, new, key) == last'.op = "truediv" /\ last'.h = new /\ Div(src, new, key)

\* C31: for every path-like input x with normalized string form n(x), PavedPath(x)
\* is the path Path(n(x)), PavedPath(x, x) is Path(n(x), n(x)), and a handle
\* that is Path(n(x)), joined with x, is Path(n(x)) / n(x).
ConstructionIsNormalized ==
    [][\A new \in Handles, x \in PathInputs :
         /\ PavedPathStep(new, <<x>>) => path'[new] = PathOf(<<Normalized(x)>>)
         /\ PavedPathStep(new, <<x, x>>)
              => path'[new] = PathOf(<<Normalized(x), Normalized(x)>>)
         /\ \A src \in Handles :
              (DivStep(src, new, x) /\ path[src] = PathOf(<<Normalized(x)>>))
              => path'[new] = JoinParts(PathOf(<<Normalized(x)>>), Parts(Normalized(x)))]_vars

\* Handle A was built from a datetime and B is A joined with that datetime:
\* B's path is the formatted datetime twice.
ConstructionWitness ==
    /\ last.op = "truediv" /\ last.h = "B" /\ live = {"A", "B"}
    /\ path["A"] = <<Normalized(Midnight)>>
    /\ path["B"] = <<Normalized(Midnight), Normalized(Midnight)>>
    /\ Normalized(Midnight) =
          <<"2", "0", "2", "0", "-", "0", "1", "-", "0", "1", ",", " ",
            "0", "0", "-", "0", "0", "-", "0", "0", ".", "0", "0", "0", "0", "0", "0">>

\* C32: the file existing, and every modification having given it a strictly
\* later modification time than it had, read_text(check_file=True) returns the
\* text the file holds now, and read_bytes(check_file=True) its bytes, whatever
\* reads and writes the handle made before, in either mode.
CheckFileReturnsDisk ==
    [][\A h \in Handles, mode \in Modes :
         (Exists(file, path[h]) /\ ReadStep(h, mode, FALSE, TRUE, FALSE))
         => last'.err = "none" /\ last'.ret = OnDisk(mode)]_vars

\* C33: the file existing and holding valid JSON, and every modification having
\* given it a strictly later modification time than it had,
\* read_json(check_file=True) returns the parse of what the file holds now,
\* whatever the handle did before, a read_text that refreshed cached_text and
\* cache_timestamp included.
CheckFileReturnsParse ==
    [][\A h \in Handles :
         (/\ Exists(file, path[h])
          /\ ParsedOnDisk.err = "none"
          /\ ReadJsonStep(h, FALSE, TRUE))
         => last'.err = "none" /\ last'.ret = ParsedOnDisk.val]_vars

\* The step is the return of a refreshing read of handle h in `mode`.
RefreshReturns(h, mode) ==
    /\ last.op = MtimeOp(mode) /\ last'.op = ReadOp(mode) /\ last'.h = h
    /\ last'.err = "none"
    /\ ReadMtime(h)

\* C34: when a refreshing read returns, whatever another writer did between
\* its content read and its modification-time lookup, the cache_timestamp it
\* left is that of the file version in the slot: a check_file read that follows
\* returns what the file holds now.
RefreshIsConsistent ==
    [][\A h \in Handles, mode \in Modes :
         RefreshReturns(h, mode)
         => ReadCached(cache'[h], file', path'[h], mode, FALSE, TRUE, FALSE).ret
              = RawRead(file', path'[h], mode).val]_vars

\* C35: a read with check_file true (reload and bypass_cache false) on a handle
\* whose slot of the mode is populated, the file having been deleted since,
\* raises nothing, returns the cached value and leaves every cache field as it
\* was.
DeletedFileServesCache ==
    [][\A h \in Handles, mode \in Modes :
         (/\ cache[h][Slot(mode)] # None
          /\ ~Exists(file, path[h])
          /\ ReadStep(h, mode, FALSE, TRUE, FALSE))
         => /\ last'.err = "none"
            /\ last'.ret = cache[h][Slot(mode)]
            /\ cache' = cache]_vars

\* read_text(check_file=True) has returned the cached "a" although the file is
\* gone.
DeletedFileWitness ==
    /\ last.op = "read_text" /\ last.h = "A" /\ last.err = "none"
    /\ last.check_file /\ ~last.reload /\ ~last.bypass_cache
    /\ last.ret = Some(<<"a">>)
    /\ ~file.exists
    /\ cache["A"].cached_text = Some(<<"a">>)
    /\ cache["A"].cache_timestamp # None

\* The step is the call of unlink on handle h.
UnlinkStep(h, missing_ok) == last'.op = "unlink" /\ last'.h = h /\ Unlink(h, missing_ok)

\* C36: an unlink that raises (the path does not exist and missing_ok is false,
\* or the path is a directory) leaves the file and every cache field of the
\* handle as they were; an unlink that returns leaves the cache empty.
FailedUnlinkKeepsCache ==
    [][\A h \in Handles, missing_ok \in BOOLEAN :
         UnlinkStep(h, missing_ok)
         => /\ (~Exists(file, path[h]) /\ ~missing_ok) => last'.err = "FileNotFoundError"
            /\ (Exists(file, path[h]) /\ path[h] = RootDir)
                 => last'.err = "IsADirectoryError"
            /\ last'.err # "none" => (cache'[h] = cache[h] /\ file' = file)
            /\ last'.err = "none" => cache'[h] = FreshCache]_vars

\* unlink() has raised FileNotFoundError on a handle that still holds the text
\* it wrote and its timestamp: the file went with its directory.
FailedUnlinkWitness ==
    /\ last.op = "unlink" /\ last.h = "A" /\ last.err = "FileNotFoundError"
    /\ ~file.exists
    /\ cache["A"].cached_text = Some(<<"a">>)
    /\ cache["A"].cache_timestamp # None

\* The step is a call on handle h that invalidates its text cache: write_text or
\* write_bytes, returning or raising, with any bypass_cache; an unlink that
\* returns; clear_cache.
InvalidatingStep(h) ==
    /\ last'.h = h
    /\ \/ /\ last'.op \in {"write_text", "write_bytes"}
          /\ \E mode \in Modes, bypass_cache \in BOOLEAN, fault \in Faults :
                \E data \in Data(mode) : WriteStep(h, mode, data, bypass_cache, fault)
       \/ /\ last'.op = "unlink" /\ last'.err = "none"
          /\ \E missing_ok \in BOOLEAN : Unlink(h, missing_ok)
       \/ ClearStep(h)

\* C37: on a JSONFile or YAMLFile handle, after write_text or write_bytes
\* (returning or raising, any bypass_cache), after an unlink that returned and
\* after clear_cache, cached_json and cached_yaml of the handle are empty,
\* whatever they held.
StructuredSlotInvalidated ==
    [][\A h \in Handles :
         InvalidatingStep(h)
         => cache'[h].cached_json = None /\ cache'[h].cached_yaml = None]_vars

\* write_bytes(bypass_cache=True) has raised on the YAMLFile handle after the disk
\* write began: its cached_yaml is empty, while the JSONFile handle, which made
\* no call since its read_json, still holds its parsed value.
StructuredSlotWitness ==
    /\ last.op = "write_bytes" /\ last.h = "B" /\ last.bypass_cache /\ last.err = "OSError"
    /\ cache["B"].cached_yaml = None /\ cache["B"].cached_json = None
    /\ cache["A"].cached_json # None
    /\ file.exists /\ file.content = << >>

\* The other handle has just written the file, bypass_cache false, and filled
\* its cache.
OtherCached(h) == OtherWrote(h) /\ ~last.bypass_cache

\* The step is a read of handle h that refreshes its cache from the disk:
\* reload true, or check_file true with the file newer than the cache.
RefreshStep(h, mode) ==
    \/ \E check_file \in BOOLEAN : ReadStep(h, mode, TRUE, check_file, FALSE)
    \/ Newer(cache[h]) /\ ReadStep(h, mode, FALSE, TRUE, FALSE)

\* The step is a read of handle h without flags that serves the populated slot.
HitStep(h, mode) == cache[h][Slot(mode)] # None /\ ReadStep(h, mode, FALSE, FALSE, FALSE)

\* C38 as stated: when the other handle has written the file (bypass_cache
\* false) and handle h then reads it with nothing between, a refresh leaves h
\* the other handle's cache_timestamp, which is the file's modification time,
\* and a cache hit leaves h its timestamp, strictly less than the other's.
HitIsStrictlyOlder ==
    [][\A h \in Handles, mode \in Modes :
         OtherCached(h)
         => /\ RefreshStep(h, mode)
                 => /\ cache'[h].cache_timestamp = cache'[last.h].cache_timestamp
                    /\ cache'[h].cache_timestamp = Some(file'.mtime)
            /\ HitStep(h, mode)
                 => /\ cache'[h].cache_timestamp = cache[h].cache_timestamp
                    /\ cache'[h].cache_timestamp[1] < cache'[last.h].cache_timestamp[1]]_vars

\* C38: when the other handle has written the file (bypass_cache false) and
\* handle h then reads it with nothing between, a refresh leaves h the other
\* handle's cache_timestamp, which is the file's modification time; a cache hit
\* leaves h its timestamp, which is not later than the other's, and strictly
\* earlier exactly when the write gave the file a modification time strictly
\* later than h's timestamp.
SameVersionSameTimestamp ==
    [][\A h \in Handles, mode \in Modes :
         OtherCached(h)
         => /\ RefreshStep(h, mode)
                 => /\ cache'[h].cache_timestamp = cache'[last.h].cache_timestamp
                    /\ cache'[h].cache_timestamp = Some(file'.mtime)
            /\ HitStep(h, mode)
                 => /\ cache'[h].cache_timestamp = cache[h].cache_timestamp
                    /\ cache'[h].cache_timestamp[1] <= cache'[last.h].cache_timestamp[1]
                    /\ (cache'[h].cache_timestamp[1] < cache'[last.h].cache_timestamp[1])
                         <=> Newer(cache[h])]_vars

\* Handle A, which cached the file at tick 0, has read it with reload right
\* after handle B wrote "a" at a later tick: both hold "a" and the file's
\* modification time.
SameVersionWitness ==
    /\ last.op = "read_text" /\ last.h = "A" /\ last.reload /\ last.err = "none"
    /\ "B" \in live /\ path["B"] = path["A"]
    /\ file.exists /\ file.mtime > 0
    /\ cache["A"].cached_text = Some(<<"a">>) /\ cache["B"].cached_text = Some(<<"a">>)
    /\ cache["A"].cache_timestamp = Some(file.mtime)
    /\ cache["B"].cache_timestamp = Some(file.mtime)

\* The step is the call of write_text / write_bytes of the earlier version with
\* these flags on handle h.
EarlyWriteStep(h, mode, data, write_through, clear_cache, fault) ==
    /\ last'.op = WriteOp(mode) /\ last'.h = h
    /\ EarlyWrite(h, mode, data, write_through, clear_cache, fault)

\* C39: in the earlier version, a write_text / write_bytes with write_through
\* false that returned has written the data to the file and left cached_text,
\* cached_bytes and cache_timestamp empty, for either value of the clear_cache
\* flag and whatever the cache held.
WriteThroughOffClears ==
    [][\A h \in Handles, mode \in Modes, clear_cache \in BOOLEAN, fault \in Faults :
         \A data \in Data(mode) :
           (/\ EarlyWriteStep(h, mode, data, FALSE, clear_cache, fault)
            /\ last'.err = "none")
           => /\ file'.exists /\ file'.content = RawContent(mode, data)
              /\ cache'[h].cached_text = None
              /\ cache'[h].cached_bytes = None
              /\ cache'[h].cache_timestamp = None]_vars

\* Each slot of the cache of every handle is empty or is what the file holds.
LegacyInSync ==
    \A h \in live, mode \in Modes :
      \/ SelfCache(h)[LegacySlot(mode)] = None
      \/ /\ Exists(file, path[h])
         /\ SelfCache(h)[LegacySlot(mode)] = RawRead(file, path[h], mode).val

\* The step is a write(content, write_through) on handle h that returned.
LegacyWriteStep(h, mode, content, write_through) ==
    /\ last'.op = "write" /\ last'.h = h /\ last'.err = "none"
    /\ last'.bypass_cache = ~write_through
    /\ LegacyWrite(h, mode, content, write_through, "none")

\* C40: in the legacy class, on a handle built directly or by a join that is the
\* only user of the file, after every write, write_text, write_bytes,
\* clear_cache, delete, read_text_cached and read_bytes_cached each cache slot
\* is empty or is the file's content; write(content, write_through=False) leaves
\* the slot empty and write(content) leaves it the content.
LegacyCacheInSync ==
    [][/\ LegacyInSync'
       /\ \A h \in Handles, mode \in Modes :
            \A content \in Data(mode) :
              /\ LegacyWriteStep(h, mode, content, FALSE)
                   => SelfCache(h)'[LegacySlot(mode)] = None
              /\ LegacyWriteStep(h, mode, content, TRUE)
                   => SelfCache(h)'[LegacySlot(mode)] = Some(content)]_vars

====
